---- MODULE Spec2Model ----
(***************************************************************************)
(* Model of package logex (github.com/vedranvuk/logex): the Fields map,    *)
(* the chainable Line builder with its lazy clone, and the Logger with its *)
(* severity gate and its dispatch to the registered outputs.               *)
(*                                                                         *)
(* The newest revision of each file is the one modelled: line.go from its  *)
(* second copyright header on (Line with the cloned flag), fields.go,      *)
(* loglevel.go, the second half of formatter.go and the Logger with named  *)
(* outputs and an ErrorFunc.                                               *)
(***************************************************************************)
EXTENDS Integers, Sequences, FiniteSets, TLC

(***************************************************************************)
(* Bounds of the model.                                                    *)
(***************************************************************************)
\* number of goroutines that use the Logger
NumThreads == 2
\* number of emission calls made in one behaviour
MaxEmit == 2
\* frames on a goroutine's stack above the logging call
StackFrames == 2
\* largest depth argument given to WithStack
MaxDepth == 2
\* number of emission calls made in one behaviour of SpecOrder
MaxOrder == 3

\* most entries the Fields of the accessor calls holds
MaxFields == 2

Threads == 1..NumThreads

(***************************************************************************)
(* LogLevel (loglevel.go).  LogLevel is a byte.                            *)
(***************************************************************************)
LevelNone == 0
LevelMute == 1
LevelError == 2
LevelWarning == 3
LevelInfo == 4
LevelDebug == 5
LevelCustom == 6
LevelPrint == 255

\* a custom level, as used by the tests: LogLevel(42)
CustomLevel == 42

BuiltinLevels ==
    {LevelNone, LevelMute, LevelError, LevelWarning, LevelInfo, LevelDebug, LevelPrint}

\* the thresholds SetLevel is called with
AllLevels == BuiltinLevels \cup {LevelCustom, CustomLevel}

Digit(d) ==
    CASE d = 0 -> "0" [] d = 1 -> "1" [] d = 2 -> "2" [] d = 3 -> "3" [] d = 4 -> "4"
      [] d = 5 -> "5" [] d = 6 -> "6" [] d = 7 -> "7" [] d = 8 -> "8" [] d = 9 -> "9"

RECURSIVE Itoa(_)
\* fmt's %d of a byte: the decimal digits, as a sequence of characters
Itoa(n) == IF n < 10 THEN <<Digit(n)>> ELSE Append(Itoa(n \div 10), Digit(n % 10))

\* LogLevel.String: the text of a level, as a sequence of characters
String(ll) ==
    CASE ll = LevelNone -> <<"N", "o", "n", "e">>
      [] ll = LevelMute -> <<"M", "u", "t", "e">>
      [] ll = LevelError -> <<"E", "r", "r", "o", "r">>
      [] ll = LevelWarning -> <<"W", "a", "r", "n", "i", "n", "g">>
      [] ll = LevelInfo -> <<"I", "n", "f", "o">>
      [] ll = LevelDebug -> <<"D", "e", "b", "u", "g">>
      [] ll = LevelPrint -> <<"P", "r", "i", "n", "t">>
      [] OTHER -> IF ll >= LevelCustom /\ ll < LevelPrint
                  THEN <<"C", "u", "s", "t", "o", "m", "(">> \o Itoa(ll) \o <<")">>
                  ELSE << >>

\* LogLevel.MarshalText: the text of String, and no error
MarshalText(ll) == [text |-> String(ll), err |-> "nil"]

UpperCase ==
    <<"A", "B", "C", "D", "E", "F", "G", "H", "I", "J", "K", "L", "M",
      "N", "O", "P", "Q", "R", "S", "T", "U", "V", "W", "X", "Y", "Z">>

LowerCase ==
    <<"a", "b", "c", "d", "e", "f", "g", "h", "i", "j", "k", "l", "m",
      "n", "o", "p", "q", "r", "s", "t", "u", "v", "w", "x", "y", "z">>

\* ToLower that changes nothing
ToLower_none(s) == s

\* strings.ToLower
ToLower(s) ==
    [i \in DOMAIN s |->
        IF \E j \in DOMAIN UpperCase : UpperCase[j] = s[i]
        THEN LowerCase[CHOOSE j \in DOMAIN UpperCase : UpperCase[j] = s[i]]
        ELSE s[i]]

\* strings.HasPrefix, TrimPrefix, HasSuffix, TrimSuffix
HasPrefix(s, prefix) == Len(s) >= Len(prefix) /\ SubSeq(s, 1, Len(prefix)) = prefix
TrimPrefix(s, prefix) == IF HasPrefix(s, prefix) THEN SubSeq(s, Len(prefix) + 1, Len(s)) ELSE s
HasSuffix(s, suffix) ==
    Len(s) >= Len(suffix) /\ SubSeq(s, Len(s) - Len(suffix) + 1, Len(s)) = suffix
TrimSuffix(s, suffix) == IF HasSuffix(s, suffix) THEN SubSeq(s, 1, Len(s) - Len(suffix)) ELSE s

IsSpace(c) == c \in {" ", "\t", "\n", "\r", "\f"}

RECURSIVE TrimLeft(_)
TrimLeft(s) == IF s # << >> /\ IsSpace(Head(s)) THEN TrimLeft(Tail(s)) ELSE s

RECURSIVE TrimRight(_)
TrimRight(s) ==
    IF s # << >> /\ IsSpace(s[Len(s)]) THEN TrimRight(SubSeq(s, 1, Len(s) - 1)) ELSE s

\* strings.TrimSpace
TrimSpace(s) == TrimRight(TrimLeft(s))

IsDigit(c) == c \in {"0", "1", "2", "3", "4", "5", "6", "7", "8", "9"}

DigitValue(c) == CHOOSE d \in 0..9 : Digit(d) = c

RECURSIVE Digits(_)
\* the number a sequence of digits writes
Digits(s) == IF s = << >> THEN 0 ELSE Digits(SubSeq(s, 1, Len(s) - 1)) * 10 + DigitValue(s[Len(s)])

\* strconv.Atoi: an optional sign and at least one digit, nothing else
Atoi(s) ==
    LET signed == s # << >> /\ Head(s) \in {"+", "-"}
        body == IF signed THEN Tail(s) ELSE s
        ok == body # << >> /\ \A i \in DOMAIN body : IsDigit(body[i])
    IN  [ok |-> ok,
         n |-> IF ~ok THEN 0
               ELSE IF signed /\ Head(s) = "-" THEN 0 - Digits(body) ELSE Digits(body)]

\* LogLevel(lvl): the conversion of an int to a byte keeps its low 8 bits
ToLogLevel(lvl) == IF lvl >= 0 THEN lvl % 256 ELSE (256 - ((0 - lvl) % 256)) % 256

\* LogLevel.UnmarshalText on a level ll: the level after the call and the error
UnmarshalText(ll, text) ==
    LET s == ToLower(text)
        custom == <<"c", "u", "s", "t", "o", "m">>
        inner == TrimPrefix(s, custom)
        number == TrimSpace(TrimSuffix(TrimPrefix(inner, <<"(">>), <<")">>))
        failed == [ll |-> ll, err |-> "ErrUnmarshalLevel"]
    IN  CASE s = <<"n", "o", "n", "e">> -> [ll |-> LevelNone, err |-> "nil"]
          [] s = <<"m", "u", "t", "e">> -> [ll |-> LevelMute, err |-> "nil"]
          [] s = <<"e", "r", "r", "o", "r">> -> [ll |-> LevelError, err |-> "nil"]
          [] s = <<"w", "a", "r", "n", "i", "n", "g">> -> [ll |-> LevelWarning, err |-> "nil"]
          [] s = <<"i", "n", "f", "o">> -> [ll |-> LevelInfo, err |-> "nil"]
          [] s = <<"d", "e", "b", "u", "g">> -> [ll |-> LevelDebug, err |-> "nil"]
          [] s = <<"p", "r", "i", "n", "t">> -> [ll |-> LevelPrint, err |-> "nil"]
          [] OTHER ->
                IF HasPrefix(s, custom) /\ HasPrefix(inner, <<"(">>) /\ HasSuffix(inner, <<")">>)
                THEN IF Atoi(number).ok
                     THEN [ll |-> ToLogLevel(Atoi(number).n), err |-> "nil"]
                     ELSE failed
                ELSE failed

(***************************************************************************)
(* Field keys and values (fields.go).                                      *)
(*                                                                         *)
(* A field value is an interface{}: here a record of its dynamic type ty,  *)
(* an integer v that identifies the value (for a value a goroutine         *)
(* supplies, the goroutine), nl (a string that ends in a newline) and fr   *)
(* (for the frames value, the sequence of the frames' Fields).             *)
(***************************************************************************)
KeyTime == "time"
KeyMessage == "message"
KeyLogLevel == "loglevel"
KeyError == "error"
KeyFrames == "frames"
KeyFile == "file"
KeyLine == "line"
KeyFunc == "func"

reservedkeys ==
    {KeyTime, KeyMessage, KeyLogLevel, KeyError, KeyFrames, KeyFile, KeyLine, KeyFunc}

\* a list of reserved keys that lacks the caller and stack keys
keyreserved_short(key) == key \in {KeyTime, KeyMessage, KeyLogLevel, KeyError}

keyreserved(key) == key \in reservedkeys

\* the custom keys user code uses
UserKeys == {"k1", "k2"}

Val(ty, v) == [ty |-> ty, v |-> v, nl |-> FALSE, fr |-> << >>]

\* NewFields: an empty map
NewFields == [k \in {} |-> Val("nil", 0)]

\* Fields.set: writes any key
set(f, key, value) == [k \in DOMAIN f \cup {key} |-> IF k = key THEN value ELSE f[k]]

\* Set that writes every key
Set_any(f, key, value) == set(f, key, value)

\* Fields.Set: refuses a reserved key (the error is returned, the map is kept)
SetOk(key) == ~keyreserved(key)
Set(f, key, value) == IF keyreserved(key) THEN f ELSE set(f, key, value)

\* the error Fields.Set returns
SetErr(key) == IF keyreserved(key) THEN "ErrReservedKey" ELSE "nil"

\* Fields.Get: the value under key and whether it exists
Get(f, key) ==
    [val |-> IF key \in DOMAIN f THEN f[key] ELSE Val("nil", 0), exists |-> key \in DOMAIN f]

\* LogLevel of Fields that forget the level they hold
LogLevelOf_none(f) == LevelNone

\* Fields.LogLevel: the loglevel field, LevelNone when absent
LogLevelOf(f) == IF KeyLogLevel \in DOMAIN f THEN f[KeyLogLevel].v ELSE LevelNone

\* Fields.Custom: the entries whose key is not reserved
Custom(f) == [k \in {x \in DOMAIN f : ~keyreserved(x)} |-> f[k]]

\* Fields.Error: the error field, nil when absent
ErrorOf(f) == IF KeyError \in DOMAIN f THEN f[KeyError] ELSE Val("nil", 0)

\* Fields.File, Fields.Line, Fields.Frames, Fields.Func, Fields.Message, Fields.Time
FileOf(f) == IF KeyFile \in DOMAIN f THEN f[KeyFile] ELSE Val("str", 0)
LineOf(f) == IF KeyLine \in DOMAIN f THEN f[KeyLine] ELSE Val("int", -1)
FramesOf(f) == IF KeyFrames \in DOMAIN f THEN f[KeyFrames].fr ELSE << >>
FuncOf(f) == IF KeyFunc \in DOMAIN f THEN f[KeyFunc] ELSE Val("str", 0)
MessageOf(f) == IF KeyMessage \in DOMAIN f THEN f[KeyMessage] ELSE Val("str", 0)
TimeOf(f) == IF KeyTime \in DOMAIN f THEN f[KeyTime] ELSE Val("time", 0)

\* a WalkFunc of the caller: nil, or a func that returns false for the keys in
\* stop and true for the others
WalkFunc(nil, stop) == [nil |-> nil, stop |-> stop]

\* a loop that does not look at what wf returns
Visit_all(order, wf) == order

RECURSIVE Visit(_, _)
\* for key, val := range f.fieldsMap { if !wf(key, val) { break } }: the keys
\* wf is called with, order being the order the range visits the map in
Visit(order, wf) ==
    IF order = << >> THEN << >>
    ELSE IF Head(order) \in wf.stop THEN <<Head(order)>>
    ELSE <<Head(order)>> \o Visit(Tail(order), wf)

\* Fields.Walk: the calls of wf and the error returned
Walk(f, wf, order) ==
    IF wf.nil THEN [visited |-> << >>, err |-> "ErrInvalidWalkFunc"]
    ELSE [visited |-> Visit(order, wf), err |-> "nil"]

\* the dynamic types the type assertion of the accessor of key accepts:
\* t.(time.Time), msg.(string), lvl.(LogLevel), err.(error), fields.([]*Fields),
\* line.(int)
Asserted(key) ==
    CASE key = KeyTime -> {"time"}
      [] key = KeyLogLevel -> {"level"}
      [] key = KeyError -> {"error", "errorprinter"}
      [] key = KeyFrames -> {"frames"}
      [] key = KeyLine -> {"int"}
      [] OTHER -> {"str"}

\* what the accessor of key returns when Get finds no entry
Absent(key) ==
    CASE key = KeyTime -> Val("time", 0)
      [] key = KeyLogLevel -> Val("level", LevelNone)
      [] key \in {KeyError, KeyFrames} -> Val("nil", 0)
      [] key = KeyLine -> Val("int", -1)
      [] OTHER -> Val("str", 0)

\* Fields.Time, Message, LogLevel, Error, Frames, File, Line, Func: the typed
\* accessor of key.  The type assertion is unchecked: it panics when the
\* value is of another dynamic type (Error returns nil for a nil value first)
Accessor(f, key) ==
    IF ~Get(f, key).exists THEN [val |-> Absent(key), panic |-> FALSE]
    ELSE IF key = KeyError /\ Get(f, key).val.ty = "nil"
         THEN [val |-> Val("nil", 0), panic |-> FALSE]
    ELSE IF Get(f, key).val.ty \in Asserted(key)
         THEN [val |-> Get(f, key).val, panic |-> FALSE]
    ELSE [val |-> Val("nil", 0), panic |-> TRUE]

\* json.Unmarshal of an object of one member into the map: the entry is set,
\* the others are kept
UnmarshalJSON(f, key, value) == set(f, key, value)

(***************************************************************************)
(* Formatters (formatter.go).  The text a formatter returns is modelled as *)
(* a record of the parts it prints, in the order it prints them.           *)
(***************************************************************************)
Perms(S) == {p \in [1..Cardinality(S) -> S] : \A i, j \in DOMAIN p : i # j => p[i] # p[j]}

\* the orders in which a range over the map of f visits its keys
WalkOrders(f) == Perms(DOMAIN f)

\* SimpleFormatter.Format, with order the order Walk visits the custom fields in
SimpleFormat(f, order) ==
    [fmt |-> "simple",
     time |-> TimeOf(f),
     level |-> String(LogLevelOf(f)),
     message |-> MessageOf(f),
     custom |-> [i \in DOMAIN order |-> <<order[i], Custom(f)[order[i]]>>],
     error |-> ErrorOf(f),
     caller |-> IF FileOf(f) # Val("str", 0) THEN <<FileOf(f), LineOf(f)>> ELSE << >>,
     stack |-> [i \in DOMAIN FramesOf(f) |->
                  <<FileOf(FramesOf(f)[i]), LineOf(FramesOf(f)[i]), FuncOf(FramesOf(f)[i])>>]]

\* encoding/json of one field value
JSONValue(v) ==
    CASE v.ty \in {"error", "errorprinter"} -> Val("object", 0)
      [] v.ty \in {"level", "int"} -> Val("number", v.v)
      [] v.ty = "frames" -> [Val("array", 0) EXCEPT !.fr = v.fr]
      [] v.ty = "nil" -> Val("null", 0)
      [] OTHER -> [Val("string", v.v) EXCEPT !.nl = v.nl]

\* JSONFormatter.Format: one object with every field, reserved or not
JSONFormat(f, indent) ==
    [fmt |-> "json", indent |-> indent, obj |-> [k \in DOMAIN f |-> JSONValue(f[k])]]

SimpleFormatter == [kind |-> "simple", indent |-> FALSE]
JSONFormatter(indent) == [kind |-> "json", indent |-> indent]

\* the formatters outputs are registered with
Formatters == {SimpleFormatter, JSONFormatter(TRUE)}

\* every formatter formats as the SimpleFormatter does
Format_simple(fm, f) == {SimpleFormat(f, order) : order \in WalkOrders(Custom(f))}

\* Formatter.Format: the texts formatter fm can return for f
Format(fm, f) ==
    IF fm.kind = "simple"
    THEN {SimpleFormat(f, order) : order \in WalkOrders(Custom(f))}
    ELSE {JSONFormat(f, fm.indent)}

(***************************************************************************)
(* The state.                                                              *)
(*                                                                         *)
(* Logger: Log (the embedded Log, the Line the Logger's own methods are    *)
(* called on), outputs, lvl, ef, mu (the goroutine that holds the Logger's *)
(* mutex, 0: nobody).                                                      *)
(* lines: the Line values in memory; lines[p] holds p's Fields, its cloned *)
(* flag and mu, the goroutine that holds p's mutex.  A Line keeps the one  *)
(* Fields it was made with for all its life.  A Line that neither the      *)
(* Logger nor a goroutine refers to is garbage and leaves lines.           *)
(* Per goroutine t: pc[t], cur[t] (the Line it holds, 0: none) and rem[t]  *)
(* (the outputs print has still to range over).                            *)
(* History: clock (the emission calls made so far: the source of time.Now  *)
(* and of the events' ids), event[t] (the last emission call of t: what    *)
(* was called, the Fields handed to print, the threshold and the outputs   *)
(* print saw, the Write and ErrorFunc calls it made), written (per writer, *)
(* the events written to it, in order) and chain (per goroutine, what its  *)
(* enrichment calls asked for).  event[t] and chain[t] are forgotten when  *)
(* t takes the Logger's Line anew, event[t] also when t enriches.          *)
(***************************************************************************)
VARIABLES Log, outputs, lvl, ef, mu, lines, pc, cur, rem,
          clock, event, written, chain,
          ufields, ulevel, ret, fmu, fpc

\* the caller's own values: a Fields it builds with Set (ufields), a LogLevel
\* variable it marshals and unmarshals (ulevel), and what the last call that
\* returns a value returned (ret)
user == <<ufields, ulevel, ret, fmu, fpc>>

\* the mutex of the caller's Fields (fmu: the goroutine that holds it, 0 when
\* free) and, per goroutine, the Fields method it is in (fpc)
shared == <<fmu, fpc>>

vars == <<Log, outputs, lvl, ef, mu, lines, pc, cur, rem,
          clock, event, written, chain, user>>

\* the names outputs are registered under
Names == {"stdout", "a", "b"}

\* the writers: os.Stdout and a bytes.Buffer (their Write does not fail) and a
\* file (its Write can fail)
Writers == {"stdout", "buffer", "file"}

\* output{w, f}
output(w, f) == [w |-> w, f |-> f]

\* room for the Logger's Line, one Line per goroutine and one being made
Slots == 1..(NumThreads + 2)

\* NewLine: a Line with empty Fields, not cloned, unlocked, that prints to
\* every output (names: the output names ToOutputs restricts it to).  handed
\* records that the Fields of the Line were passed to Logger.print
NewLine ==
    [fields |-> NewFields, cloned |-> FALSE, mu |-> 0, names |-> << >>, handed |-> FALSE]

\* the address of the next Line allocated
Fresh(ls) == CHOOSE p \in Slots \ DOMAIN ls : \A q \in Slots \ DOMAIN ls : p <= q

\* ls with the Line at address p added or replaced
Put(ls, p, line) == [q \in DOMAIN ls \cup {p} |-> IF q = p THEN line ELSE ls[q]]

\* garbage collection: the Lines the Logger (log) or a goroutine (c) refers to
Live(ls, log, c) == [q \in DOMAIN ls \cap ({log} \cup {c[t] : t \in Threads}) |-> ls[q]]

NoOutputs == [n \in {} |-> output("buffer", SimpleFormatter)]

NoChain == [calls |-> FALSE, base |-> NewFields, added |-> NewFields]

NoEvent ==
    [id |-> 0, line |-> 0, cloned |-> FALSE, kind |-> "none", level |-> 0, ln |-> FALSE,
     keep |-> FALSE,
     fields |-> NewFields, gate |-> -1, outs |-> NoOutputs, writes |-> << >>,
     efs |-> << >>, returned |-> FALSE, chained |-> FALSE, base |-> NewFields,
     added |-> NewFields, names |-> << >>]

\* what a call returned: the call (op), the name or key it was given, the
\* error (err, "nil": none), the output, value, truth and text it was given
\* or gave back, the LogLevel of its receiver before (was) and after (ll),
\* and the WalkFunc it was given with the keys it called it with (visited)
NoRet ==
    [op |-> "none", name |-> "", err |-> "nil", out |-> output("buffer", SimpleFormatter),
     val |-> Val("nil", 0), ok |-> FALSE, text |-> << >>, was |-> LevelNone,
     ll |-> LevelNone, wf |-> WalkFunc(TRUE, {}), visited |-> << >>]

\* a goroutine that is in no Fields method; in one, op is the method, key and
\* value its arguments, seen the keys its range has visited, dirty whether the
\* map was written while it ranged
Idle == [op |-> "idle", key |-> "", value |-> Val("nil", 0), seen |-> {}, dirty |-> FALSE]

\* the caller has made no call yet: f := NewFields(); var level LogLevel
NoUser ==
    /\ ufields = NewFields
    /\ ulevel = LevelNone
    /\ ret = NoRet
    /\ fmu = 0
    /\ fpc = [t \in Threads |-> Idle]

\* New(ef): no outputs, level Debug, a fresh Line as Log; ef is an ErrorFunc
\* (TRUE) or nil (FALSE)
New(e, outs) ==
    /\ Log = 1
    /\ outputs = outs
    /\ lvl = LevelDebug
    /\ ef = e
    /\ mu = 0
    /\ lines = Put(<< >>, 1, NewLine)
    /\ pc = [t \in Threads |-> "ready"]
    /\ cur = [t \in Threads |-> 0]
    /\ rem = [t \in Threads |-> {}]
    /\ clock = 0
    /\ event = [t \in Threads |-> NoEvent]
    /\ written = [n \in Names |-> << >>]
    /\ chain = [t \in Threads |-> NoChain]

\* a registry in which a name registered again replaces the output it had
AddOutputMap_replace(outs, name, w, f) ==
    IF name = "" THEN outs
    ELSE [n \in DOMAIN outs \cup {name} |-> IF n = name THEN output(w, f) ELSE outs[n]]

\* the registry after AddOutput(name, w, f)
AddOutputMap(outs, name, w, f) ==
    IF name = "" THEN outs
    ELSE IF name \in DOMAIN outs THEN outs
    ELSE [n \in DOMAIN outs \cup {name} |-> IF n = name THEN output(w, f) ELSE outs[n]]

\* the error AddOutput(name, w, f) returns
AddOutputErr(outs, name) ==
    IF name = "" THEN "ErrInvalidName"
    ELSE IF name \in DOMAIN outs THEN "ErrDuplicateName"
    ELSE "nil"

\* the state after New(ef)
Init == NoUser /\ \E e \in BOOLEAN : New(e, NoOutputs)

\* the state after NewStd(nil): New(nil), then AddOutput("stdout", os.Stdout,
\* NewSimpleFormatter())
InitStd == NoUser /\ New(FALSE, AddOutputMap(NoOutputs, "stdout", "stdout", SimpleFormatter))

(***************************************************************************)
(* Logger.AddOutput and Logger.SetLevel: each runs under the Logger's mu.  *)
(***************************************************************************)
\* AddOutput that does not take the Logger's mu
AddOutput_nolock(name, w, f) ==
    /\ outputs' = AddOutputMap(outputs, name, w, f)
    /\ ret' = [NoRet EXCEPT !.op = "AddOutput", !.name = name, !.out = output(w, f),
                            !.err = AddOutputErr(outputs, name)]
    /\ UNCHANGED <<Log, lvl, ef, mu, lines, pc, cur, rem, clock, event, written, chain,
                   ufields, ulevel, shared>>

AddOutput(name, w, f) ==
    /\ mu = 0
    /\ outputs' = AddOutputMap(outputs, name, w, f)
    /\ ret' = [NoRet EXCEPT !.op = "AddOutput", !.name = name, !.out = output(w, f),
                            !.err = AddOutputErr(outputs, name)]
    /\ UNCHANGED <<Log, lvl, ef, mu, lines, pc, cur, rem, clock, event, written, chain,
                   ufields, ulevel, shared>>

\* SetLevel that does not take the Logger's mu
SetLevel_nolock(level) ==
    /\ lvl' = level
    /\ UNCHANGED <<Log, outputs, ef, mu, lines, pc, cur, rem, clock, event, written, chain,
                   user>>

SetLevel(level) ==
    /\ mu = 0
    /\ lvl' = level
    /\ UNCHANGED <<Log, outputs, ef, mu, lines, pc, cur, rem, clock, event, written, chain,
                   user>>

(***************************************************************************)
(* Calls on a Fields of the caller (fields.go).                            *)
(***************************************************************************)
\* the variables of the Logger, its Lines and the goroutines
logger == <<Log, outputs, lvl, ef, mu, lines, pc, cur, rem, clock, event, written, chain>>

\* err := ufields.Set(key, value)
DoSet(key, value) ==
    /\ ufields' = Set(ufields, key, value)
    /\ ret' = [NoRet EXCEPT !.op = "Set", !.name = key, !.val = value, !.err = SetErr(key)]
    /\ UNCHANGED <<logger, shared, ulevel>>

\* ufields.set(key, value), as the package calls it
Doset(key, value) ==
    /\ ufields' = set(ufields, key, value)
    /\ ret' = [NoRet EXCEPT !.op = "set", !.name = key, !.val = value]
    /\ UNCHANGED <<logger, shared, ulevel>>

\* val, exists := ufields.Get(key)
DoGet(key) ==
    /\ ret' = [NoRet EXCEPT !.op = "Get", !.name = key, !.val = Get(ufields, key).val,
                            !.ok = Get(ufields, key).exists]
    /\ UNCHANGED <<logger, shared, ufields, ulevel>>

\* err := ufields.Walk(wf), the range visiting the map in order
DoWalk(wf, order) ==
    /\ ret' = [NoRet EXCEPT !.op = "Walk", !.wf = wf,
                            !.visited = Walk(ufields, wf, order).visited,
                            !.err = Walk(ufields, wf, order).err]
    /\ UNCHANGED <<logger, shared, ufields, ulevel>>

\* err := ufields.UnmarshalJSON(data), data an object with the member key: value
DoUnmarshalJSON(key, value) ==
    /\ key \in DOMAIN ufields \/ Cardinality(DOMAIN ufields) < MaxFields
    /\ ufields' = UnmarshalJSON(ufields, key, value)
    /\ ret' = [NoRet EXCEPT !.op = "UnmarshalJSON", !.name = key, !.val = value]
    /\ UNCHANGED <<logger, shared, ulevel>>

\* the package stamps key with a value of the type its accessor expects
DoStamp(key, value) ==
    /\ key \in DOMAIN ufields \/ Cardinality(DOMAIN ufields) < MaxFields
    /\ ufields' = set(ufields, key, value)
    /\ ret' = [NoRet EXCEPT !.op = "set", !.name = key, !.val = value]
    /\ UNCHANGED <<logger, shared, ulevel>>

\* v := ufields.Time() and the other typed accessors, by their key; ok tells
\* that Get found a value of the type the accessor asserts
DoAccessor(key) ==
    /\ ret' = [NoRet EXCEPT !.op = "Accessor", !.name = key,
                            !.val = Accessor(ufields, key).val,
                            !.err = IF Accessor(ufields, key).panic THEN "panic" ELSE "nil",
                            !.ok = /\ Get(ufields, key).exists
                                   /\ Get(ufields, key).val.ty \in Asserted(key)]
    /\ UNCHANGED <<logger, shared, ufields, ulevel>>

(***************************************************************************)
(* Goroutines that share the Fields of the caller (fields.go).  set and    *)
(* Get lock the mutex of the Fields; Walk ranges over the map without it.  *)
(***************************************************************************)
\* the runtime has not stopped the program
Running == \A t \in Threads : fpc[t].op # "fatal"

\* goroutine t enters set(key, value) or Get(key): f.mu.Lock()
FieldsLock(t, op, key, value) ==
    /\ Running
    /\ fpc[t].op = "idle"
    /\ fmu = 0
    /\ fmu' = t
    /\ fpc' = [fpc EXCEPT ![t] = [Idle EXCEPT !.op = op, !.key = key, !.value = value]]
    /\ UNCHANGED <<logger, ufields, ulevel, ret>>

\* f.fieldsMap[key] = value, then the deferred f.mu.Unlock(); a range another
\* goroutine is in has seen the map written
FieldsSet(t) ==
    /\ Running
    /\ fpc[t].op = "set"
    /\ ufields' = set(ufields, fpc[t].key, fpc[t].value)
    /\ fmu' = 0
    /\ fpc' = [u \in Threads |->
                IF u = t THEN Idle
                ELSE IF fpc[u].op = "Walk" THEN [fpc[u] EXCEPT !.dirty = TRUE]
                ELSE fpc[u]]
    /\ ret' = [NoRet EXCEPT !.op = "set", !.name = fpc[t].key, !.val = fpc[t].value]
    /\ UNCHANGED <<logger, ulevel>>

\* val, exists = f.fieldsMap[key], then the deferred f.mu.Unlock()
FieldsGet(t) ==
    /\ Running
    /\ fpc[t].op = "Get"
    /\ fmu' = 0
    /\ fpc' = [fpc EXCEPT ![t] = Idle]
    /\ ret' = [NoRet EXCEPT !.op = "Get", !.name = fpc[t].key,
                            !.val = Get(ufields, fpc[t].key).val,
                            !.ok = Get(ufields, fpc[t].key).exists]
    /\ UNCHANGED <<logger, ufields, ulevel>>

\* goroutine t enters Walk with a WalkFunc that returns true: the range over
\* f.fieldsMap begins, no mutex is locked
WalkBegin(t) ==
    /\ Running
    /\ fpc[t].op = "idle"
    /\ fpc' = [fpc EXCEPT ![t] = [Idle EXCEPT !.op = "Walk"]]
    /\ UNCHANGED <<logger, ufields, ulevel, ret, fmu>>

\* one round of the range: an entry not visited yet
WalkVisit(t) ==
    /\ Running
    /\ fpc[t].op = "Walk"
    /\ \E key \in DOMAIN ufields \ fpc[t].seen :
          fpc' = [fpc EXCEPT ![t].seen = @ \cup {key}]
    /\ UNCHANGED <<logger, ufields, ulevel, ret, fmu>>

\* the range is over: every entry was visited; a range over a map written
\* meanwhile can miss entries
WalkEnd(t) ==
    /\ Running
    /\ fpc[t].op = "Walk"
    /\ fpc[t].dirty \/ DOMAIN ufields \subseteq fpc[t].seen
    /\ fpc' = [fpc EXCEPT ![t] = Idle]
    /\ ret' = [NoRet EXCEPT !.op = "Walk", !.wf = WalkFunc(FALSE, {})]
    /\ UNCHANGED <<logger, ufields, ulevel, fmu>>

\* the runtime finds the map written during the range and stops the program
\* (fatal error: concurrent map iteration and map write)
WalkFatal(t) ==
    /\ Running
    /\ fpc[t].op = "Walk"
    /\ fpc[t].dirty
    /\ fpc' = [fpc EXCEPT ![t].op = "fatal"]
    /\ UNCHANGED <<logger, ufields, ulevel, ret, fmu>>

(***************************************************************************)
(* Calls on a LogLevel of the caller (loglevel.go).                        *)
(***************************************************************************)
\* level := ll; b, err := level.MarshalText()
DoMarshalText(ll) ==
    /\ ulevel' = ll
    /\ ret' = [NoRet EXCEPT !.op = "MarshalText", !.text = MarshalText(ll).text,
                            !.err = MarshalText(ll).err, !.val = Val("level", ll)]
    /\ UNCHANGED <<logger, shared, ufields>>

\* level = ll
DoAssign(ll) ==
    /\ ulevel' = ll
    /\ UNCHANGED <<logger, shared, ufields, ret>>

\* err := level.UnmarshalText(text); ret.val keeps the level whose MarshalText
\* gave the text, when the text is the one the last call gave
DoUnmarshalText(text) ==
    /\ ulevel' = UnmarshalText(ulevel, text).ll
    /\ ret' = [NoRet EXCEPT !.op = "UnmarshalText", !.text = text,
                            !.err = UnmarshalText(ulevel, text).err,
                            !.was = ulevel, !.ll = UnmarshalText(ulevel, text).ll,
                            !.val = IF ret.op = "MarshalText" /\ ret.text = text
                                    THEN ret.val ELSE Val("nil", 0)]
    /\ UNCHANGED <<logger, shared, ufields>>

(***************************************************************************)
(* Line: the enrichment calls (line.go).                                   *)
(***************************************************************************)
Min(a, b) == IF a < b THEN a ELSE b

\* lazyclone without the clone: the Line itself is enriched
lazyclone_shared(ls, p) == [l |-> p, lines |-> ls]

\* lazyclone without the copy: the clone starts empty
lazyclone_nocopy(ls, p) ==
    IF ls[p].cloned
    THEN [l |-> p, lines |-> ls]
    ELSE [l |-> Fresh(ls),
          lines |-> Put(ls, Fresh(ls), [fields |-> NewFields, cloned |-> TRUE, mu |-> 0,
                                         names |-> << >>, handed |-> FALSE])]

\* lazyclone that clones a Line that is a clone already
lazyclone_always(ls, p) ==
    [l |-> Fresh(ls),
     lines |-> Put(ls, Fresh(ls),
                   [fields |-> [k \in DOMAIN ls[p].fields |-> ls[p].fields[k]],
                    cloned |-> TRUE,
                    mu |-> 0,
                    names |-> << >>,
                    handed |-> FALSE])]

\* Line.lazyclone on Line p of ls: the Line to enrich (l) and the Lines after
\* the call.  A Line that is not cloned gets a new Line, marked cloned, that
\* holds a copy of every field of p.
lazyclone(ls, p) ==
    IF ls[p].cloned
    THEN [l |-> p, lines |-> ls]
    ELSE [l |-> Fresh(ls),
          lines |-> Put(ls, Fresh(ls),
                        [fields |-> [k \in DOMAIN ls[p].fields |-> ls[p].fields[k]],
                         cloned |-> TRUE,
                         mu |-> 0,
                         names |-> << >>,
                         handed |-> FALSE])]

\* WithCaller: runtime.Caller(skip) of goroutine t gives its call site when
\* ok; the file and line fields are set then
Caller(f, t, ok) ==
    IF ok THEN set(set(f, KeyFile, Val("str", t)), KeyLine, Val("int", t)) ELSE f

\* the Fields of frame j of the stack
Frame(j) ==
    set(set(set(NewFields, KeyFile, Val("str", j + 1)), KeyLine, Val("int", j + 1)),
        KeyFunc, Val("str", j + 1))

\* runtime.Callers(skip, callers) with len(callers) = depth
Callers(skip, depth) ==
    IF skip >= StackFrames THEN 0 ELSE Min(depth, StackFrames - skip)

\* a loop that does not break when Next reports no more frames
StackLoop_nobreak(skip, i, depth, n, frameslice) ==
    frameslice \o [j \in 1..(depth - i) |-> Frame(skip + i + j - 1)]

RECURSIVE StackLoop(_, _, _, _, _)
\* the loop of WithStack from index i: one frame is appended per round, until
\* depth rounds are made or Next reports no more frames
StackLoop(skip, i, depth, n, frameslice) ==
    IF i >= depth THEN frameslice
    ELSE LET next == Append(frameslice, Frame(skip + i))
             more == i + 1 < n
         IN  IF ~more THEN next ELSE StackLoop(skip, i + 1, depth, n, next)

\* WithStack: the frames field is set when Callers returned frames
Stack(f, t, skip, depth) ==
    IF Callers(skip, depth) > 0
    THEN set(f, KeyFrames,
             [Val("frames", t) EXCEPT
                !.fr = StackLoop(skip, 0, depth, Callers(skip, depth), << >>)])
    ELSE f

\* WithFields wraps a value that is an error in an errorprinter
Wrap(v) == IF v.ty = "error" THEN [v EXCEPT !.ty = "errorprinter"] ELSE v

RECURSIVE WalkSet(_, _, _)
\* WithFields: the walk over custom, in order, calls Fields.Set for each entry
WalkSet(f, custom, order) ==
    IF order = << >> THEN f
    ELSE WalkSet(Set(f, Head(order), Wrap(custom[Head(order)])), custom, Tail(order))

WithCaller(ok) ==
    [op |-> "WithCaller", ok |-> ok, skip |-> 0, depth |-> 0, custom |-> NewFields]
WithStack(skip, depth) ==
    [op |-> "WithStack", ok |-> TRUE, skip |-> skip, depth |-> depth, custom |-> NewFields]
WithFields(custom) ==
    [op |-> "WithFields", ok |-> TRUE, skip |-> 0, depth |-> 0, custom |-> custom]

\* the Fields of the Line the call enriches, after the call
Enriched(f, t, call) ==
    CASE call.op = "WithCaller" -> Caller(f, t, call.ok)
      [] call.op = "WithStack" -> Stack(f, t, call.skip, call.depth)
      [] call.op = "WithFields" ->
            LET order == CHOOSE o \in WalkOrders(call.custom) : TRUE
            IN  WalkSet(f, call.custom, order)

\* f with every entry of g written over it
Over(f, g) == [k \in DOMAIN f \cup DOMAIN g |-> IF k \in DOMAIN g THEN g[k] ELSE f[k]]

\* goroutine t reads the Logger's embedded Log (l.Log, without the Logger's mu)
GetBase(t) ==
    /\ pc[t] = "ready"
    /\ cur[t] # Log
    /\ cur' = [cur EXCEPT ![t] = Log]
    /\ lines' = Live(lines, Log, cur')
    /\ chain' = [chain EXCEPT ![t] = NoChain]
    /\ event' = [event EXCEPT ![t] = NoEvent]
    /\ UNCHANGED <<Log, outputs, lvl, ef, mu, pc, rem, clock, written, user>>

\* goroutine t calls WithCaller, WithStack or WithFields on the Line it holds:
\* the call locks that Line's mu, clones lazily, enriches, unlocks and returns
\* the enriched Line
Enrich(t, call) ==
    LET p == cur[t]
        c == lazyclone(lines, p)
    IN  /\ pc[t] = "ready"
        /\ p # 0
        /\ lines[p].mu = 0
        /\ cur' = [cur EXCEPT ![t] = c.l]
        /\ lines' = Live([c.lines EXCEPT ![c.l].fields = Enriched(@, t, call)], Log, cur')
        /\ chain' = [chain EXCEPT ![t] =
                        [calls |-> TRUE,
                         base |-> IF lines[p].cloned THEN @.base ELSE lines[p].fields,
                         added |-> Over(@.added, Enriched(NewFields, t, call))]]
        /\ event' = [event EXCEPT ![t] = NoEvent]
        /\ UNCHANGED <<Log, outputs, lvl, ef, mu, pc, rem, clock, written, user>>

\* goroutine t calls ToOutputs(names...) on the Line it holds: a clone that
\* prints only to the outputs named
ToOutputs(t, names) ==
    LET p == cur[t]
        c == lazyclone(lines, p)
    IN  /\ pc[t] = "ready"
        /\ p # 0
        /\ lines[p].mu = 0
        /\ cur' = [cur EXCEPT ![t] = c.l]
        /\ lines' = Live([c.lines EXCEPT ![c.l].names = names], Log, cur')
        /\ chain' = [chain EXCEPT ![t] =
                        [calls |-> TRUE,
                         base |-> IF lines[p].cloned THEN @.base ELSE lines[p].fields,
                         added |-> @.added]]
        /\ event' = [event EXCEPT ![t] = NoEvent]
        /\ UNCHANGED <<Log, outputs, lvl, ef, mu, pc, rem, clock, written, user>>

(***************************************************************************)
(* Line: the emission calls and flush (line.go).                           *)
(***************************************************************************)
Kinds == {"debug", "info", "warning", "error", "print"}

\* the levels in the reverse order: Debugf logs at LevelError, Errorf at LevelDebug
FlushLevel_reversed(kind, level) ==
    CASE kind = "debug" -> LevelError
      [] kind = "info" -> LevelWarning
      [] kind = "warning" -> LevelInfo
      [] kind = "error" -> LevelDebug
      [] kind = "print" -> LevelPrint

\* the level an emission call passes to flush: Debugf/Debugln LevelDebug,
\* Infof/Infoln LevelInfo, Warningf/Warningln LevelWarning, Errorf/Errorln
\* LevelError, and Printf/Println LevelPrint, whatever their level argument
FlushLevel(kind, level) ==
    CASE kind = "debug" -> LevelDebug
      [] kind = "info" -> LevelInfo
      [] kind = "warning" -> LevelWarning
      [] kind = "error" -> LevelError
      [] kind = "print" -> LevelPrint

\* the level argument of the call: Printf and Println take one
LevelArgs(kind) == IF kind = "print" THEN {CustomLevel, LevelPrint} ELSE {FlushLevel(kind, 0)}

\* the message of goroutine t: fmt.Sprintf(format, args...) for the f calls,
\* fmt.Sprint(args...) + "\n" for the ln calls
Message(t, ln) == [Val("str", t) EXCEPT !.nl = ln]

\* Line.flush: stamps loglevel, message and time
flush(f, level, message, now) ==
    set(set(set(f, KeyLogLevel, Val("level", level)), KeyMessage, message),
        KeyTime, Val("time", now))

\* the Fields of the Line after the emission call has stamped them: Errorf and
\* Errorln set the error field first
Stamped(f, t, kind, level, ln, now) ==
    flush(IF kind = "error" THEN set(f, KeyError, Val("error", t)) ELSE f,
          FlushLevel(kind, level), Message(t, ln), now)

\* goroutine t calls an emission method on the Line it holds: the call locks
\* the Line's mu, stamps the Fields and hands them to Logger.print.  keep: t
\* keeps its reference to the Line after the call (c := l.WithCaller(0);
\* c.Infoln(); c.Infoln()) instead of dropping it (l.WithCaller(0).Infoln()).
EmitMax(t, kind, level, ln, keep, max) ==
    LET p == cur[t]
        now == clock + 1
        f == Stamped(lines[p].fields, t, kind, level, ln, now)
    IN  /\ pc[t] = "ready"
        /\ p # 0
        /\ lines[p].mu = 0
        /\ clock < max
        /\ clock' = now
        /\ lines' = [lines EXCEPT ![p].mu = t, ![p].fields = f, ![p].handed = TRUE]
        /\ event' = [event EXCEPT ![t] =
              [NoEvent EXCEPT !.id = now, !.line = p, !.cloned = lines[p].cloned,
                              !.kind = kind, !.level = level, !.ln = ln, !.fields = f,
                              !.keep = keep,
                              !.chained = chain[t].calls, !.base = chain[t].base,
                              !.added = chain[t].added, !.names = lines[p].names]]
        /\ pc' = [pc EXCEPT ![t] = "print"]
        /\ UNCHANGED <<Log, outputs, lvl, ef, mu, cur, rem, written, chain, user>>

\* the emission call, in a behaviour of at most MaxEmit of them
Emit(t, kind, level, ln, keep) == EmitMax(t, kind, level, ln, keep, MaxEmit)

(***************************************************************************)
(* Logger.print.                                                           *)
(***************************************************************************)
\* a gate that also drops the event whose level is the threshold
Dropped_ge(f, threshold) == LogLevelOf(f) >= threshold

\* no gate
Dropped_never(f, threshold) == FALSE

\* the severity gate: the event is dropped when its level is above the threshold
Dropped(f, threshold) == LogLevelOf(f) > threshold

\* a print that writes to no output when no name is given
Targets_named(outs, outputnames) ==
    {outputnames[i] : i \in DOMAIN outputnames} \cap DOMAIN outs

\* a print that ranges over every output whatever the names
Targets_all(outs, outputnames) == DOMAIN outs

\* the outputs print writes to: the registered ones among outputnames when
\* names are given, every output otherwise
Targets(outs, outputnames) ==
    IF Len(outputnames) > 0
    THEN {outputnames[i] : i \in DOMAIN outputnames} \cap DOMAIN outs
    ELSE DOMAIN outs

\* the Line goroutine t holds and its chain after its emission call returned
Kept(t) == [cur EXCEPT ![t] = IF event[t].keep THEN @ ELSE 0]
KeptChain(t) == [chain EXCEPT ![t] = IF event[t].keep THEN @ ELSE NoChain]

\* print that does not wait for the Logger's mu
PrintGate_nolock(t) ==
    LET p == cur[t] IN
    /\ pc[t] = "print"
    /\ IF Dropped(lines[p].fields, lvl)
       THEN /\ event' = [event EXCEPT ![t].gate = lvl, ![t].outs = outputs,
                                      ![t].returned = TRUE]
            /\ cur' = Kept(t)
            /\ chain' = KeptChain(t)
            /\ lines' = Live([lines EXCEPT ![p].mu = 0], Log, cur')
            /\ pc' = [pc EXCEPT ![t] = "ready"]
            /\ UNCHANGED <<mu, rem>>
       ELSE /\ event' = [event EXCEPT ![t].gate = lvl, ![t].outs = outputs]
            /\ mu' = t
            /\ rem' = [rem EXCEPT ![t] = Targets(outputs, lines[p].names)]
            /\ pc' = [pc EXCEPT ![t] = "write"]
            /\ UNCHANGED <<lines, cur, chain>>
    /\ UNCHANGED <<Log, outputs, lvl, ef, clock, written, user>>

\* print locks the Logger's mu and checks the gate.  A dropped event returns
\* at once: print unlocks, flush returns and the emission call unlocks the Line.
PrintGate(t) ==
    LET p == cur[t] IN
    /\ pc[t] = "print"
    /\ mu = 0
    /\ IF Dropped(lines[p].fields, lvl)
       THEN /\ event' = [event EXCEPT ![t].gate = lvl, ![t].outs = outputs,
                                      ![t].returned = TRUE]
            /\ cur' = Kept(t)
            /\ chain' = KeptChain(t)
            /\ lines' = Live([lines EXCEPT ![p].mu = 0], Log, cur')
            /\ pc' = [pc EXCEPT ![t] = "ready"]
            /\ UNCHANGED <<mu, rem>>
       ELSE /\ event' = [event EXCEPT ![t].gate = lvl, ![t].outs = outputs]
            /\ mu' = t
            /\ rem' = [rem EXCEPT ![t] = Targets(outputs, lines[p].names)]
            /\ pc' = [pc EXCEPT ![t] = "write"]
            /\ UNCHANGED <<lines, cur, chain>>
    /\ UNCHANGED <<Log, outputs, lvl, ef, clock, written, user>>

\* the results of Write on writer w: nil (TRUE) or an error (FALSE)
WriteOk(w) == IF w = "file" THEN BOOLEAN ELSE {TRUE}

\* a Write that puts the text before what the writer already holds
Wrote_front(log, ev, t) == <<[ev |-> ev, t |-> t]>> \o log

\* Write appends the text of event ev of goroutine t to what the writer holds
Wrote(log, ev, t) == Append(log, [ev |-> ev, t |-> t])

\* a range that a Write error ends
Rest_abort(r, name, ok) == IF ok THEN r \ {name} ELSE {}

\* the outputs the range has still to visit after the round of name: a Write
\* error does not end the range
Rest(r, name, ok) == r \ {name}

\* ef called after every Write
Reported_every(efs, name, ok, e) == IF e THEN Append(efs, name) ELSE efs

\* the calls of ef after the round of name: l.ef(err) when Write returned an
\* error and ef is not nil
Reported(efs, name, ok, e) == IF ~ok /\ e THEN Append(efs, name) ELSE efs

\* one round of the range over l.outputs: the output's formatter formats the
\* fields, the text is written to its writer, and a Write error goes to ef
\* when ef is set
PrintWrite(t) ==
    /\ pc[t] = "write"
    /\ \E name \in rem[t] : \E ok \in WriteOk(outputs[name].w) :
         \E text \in Format(outputs[name].f, lines[cur[t]].fields) :
            /\ written' = [written EXCEPT ![name] = Wrote(@, event[t].id, t)]
            /\ event' = [event EXCEPT
                  ![t].writes = Append(@, [name |-> name, text |-> text, ok |-> ok]),
                  ![t].efs = Reported(@, name, ok, ef)]
            /\ rem' = [rem EXCEPT ![t] = Rest(@, name, ok)]
    /\ UNCHANGED <<Log, outputs, lvl, ef, mu, lines, pc, cur, clock, chain, user>>

\* one round of the range when ef is a function that calls l.SetLevel on the
\* same Logger: after a Write error the goroutine is inside ef (pc "ef"), and
\* the round is over when ef returns
PrintWriteEf(t) ==
    /\ pc[t] = "write"
    /\ \E name \in rem[t] : \E ok \in WriteOk(outputs[name].w) :
         \E text \in Format(outputs[name].f, lines[cur[t]].fields) :
            /\ written' = [written EXCEPT ![name] = Wrote(@, event[t].id, t)]
            /\ event' = [event EXCEPT
                  ![t].writes = Append(@, [name |-> name, text |-> text, ok |-> ok]),
                  ![t].efs = Reported(@, name, ok, ef)]
            /\ rem' = [rem EXCEPT ![t] = Rest(@, name, ok)]
            /\ pc' = [pc EXCEPT ![t] = IF ~ok /\ ef THEN "ef" ELSE @]
    /\ UNCHANGED <<Log, outputs, lvl, ef, mu, lines, cur, clock, chain, user>>

\* goroutine t calls l.SetLevel(level), from its own code or from inside ef:
\* SetLevel locks the Logger's mu, sets the threshold, unlocks and returns,
\* and inside ef the range goes on after it
CallSetLevel(t, level) ==
    /\ pc[t] \in {"ready", "ef"}
    /\ mu = 0
    /\ lvl' = level
    /\ pc' = [pc EXCEPT ![t] = IF @ = "ef" THEN "write" ELSE @]
    /\ UNCHANGED <<Log, outputs, ef, mu, lines, cur, rem, clock, event, written, chain,
                   user>>

\* a range that can end before every output is written
RangeDone_early(r) == TRUE

\* a range that is never over
RangeDone_never(r) == FALSE

\* the range is over
RangeDone(r) == r = {}

\* a print that returns without unlocking the Logger's mu
PrintDone_locked(t) ==
    /\ pc[t] = "write"
    /\ RangeDone(rem[t])
    /\ Log' = Fresh(lines)
    /\ cur' = Kept(t)
    /\ chain' = KeptChain(t)
    /\ lines' = Live(Put([lines EXCEPT ![cur[t]].mu = 0], Fresh(lines), NewLine), Log', cur')
    /\ rem' = [rem EXCEPT ![t] = {}]
    /\ event' = [event EXCEPT ![t].returned = TRUE]
    /\ pc' = [pc EXCEPT ![t] = "ready"]
    /\ UNCHANGED <<outputs, lvl, ef, mu, clock, written, user>>

\* after the range print sets l.Log to a new Line and unlocks; flush returns
\* and the emission call unlocks the Line
PrintDone(t) ==
    /\ pc[t] = "write"
    /\ RangeDone(rem[t])
    /\ Log' = Fresh(lines)
    /\ cur' = Kept(t)
    /\ chain' = KeptChain(t)
    /\ lines' = Live(Put([lines EXCEPT ![cur[t]].mu = 0], Fresh(lines), NewLine), Log', cur')
    /\ mu' = 0
    /\ rem' = [rem EXCEPT ![t] = {}]
    /\ event' = [event EXCEPT ![t].returned = TRUE]
    /\ pc' = [pc EXCEPT ![t] = "ready"]
    /\ UNCHANGED <<outputs, lvl, ef, clock, written, user>>

(***************************************************************************)
(* The specifications.  Each lets the goroutines make the calls of one     *)
(* part of the package, with the arguments listed.                         *)
(***************************************************************************)
\* SpecChain: the goroutines enrich and emit on a Logger made by NewStd
ChainCalls(t) ==
    {WithCaller(TRUE), WithStack(0, MaxDepth),
     WithFields(set(set(NewFields, "k1", Val("str", t)), KeyFile, Val("str", 9)))}

ChainEmits == {<<"info", LevelInfo, TRUE>>, <<"error", LevelError, FALSE>>}

NextChain ==
    \/ \E level \in {LevelError} : SetLevel(level)
    \/ \E t \in Threads : GetBase(t)
    \/ \E t \in Threads : \E call \in ChainCalls(t) : Enrich(t, call)
    \/ \E t \in Threads : \E e \in ChainEmits : Emit(t, e[1], e[2], e[3], FALSE)
    \/ \E t \in Threads : PrintGate(t)
    \/ \E t \in Threads : PrintWrite(t)
    \/ \E t \in Threads : PrintDone(t)

SpecChain == InitStd /\ [][NextChain]_vars

\* SpecGate: one goroutine makes every emission call, on the Logger made by
\* NewStd or on a clone, while SetLevel is called with every threshold
NextGate ==
    \/ \E level \in AllLevels : SetLevel(level)
    \/ GetBase(1)
    \/ Enrich(1, WithCaller(TRUE))
    \/ \E kind \in Kinds, ln \in BOOLEAN : \E level \in LevelArgs(kind) :
          Emit(1, kind, level, ln, FALSE)
    \/ PrintGate(1)
    \/ PrintWrite(1)
    \/ PrintDone(1)

SpecGate == InitStd /\ [][NextGate]_vars

\* SpecSink: the goroutines emit on a Logger made by New while outputs are
\* registered and the threshold changes
SinkOutputs ==
    {<<"", "buffer", SimpleFormatter>>, <<"a", "buffer", SimpleFormatter>>,
     <<"b", "file", JSONFormatter(TRUE)>>}

SinkEmits == {<<"info", LevelInfo, TRUE>>, <<"error", LevelError, FALSE>>}

NextSink ==
    \/ \E o \in SinkOutputs : AddOutput(o[1], o[2], o[3])
    \/ \E level \in {LevelError} : SetLevel(level)
    \/ \E t \in Threads : GetBase(t)
    \/ \E t \in Threads : \E e \in SinkEmits : Emit(t, e[1], e[2], e[3], FALSE)
    \/ \E t \in Threads : PrintGate(t)
    \/ \E t \in Threads : PrintWrite(t)
    \/ \E t \in Threads : PrintDone(t)

SpecSink == Init /\ [][NextSink]_vars


\* SpecNoSink: one goroutine makes every emission call on a Logger made by
\* New, with every threshold, before an output is registered and after
NoSinkOutputs == {<<"", "buffer", SimpleFormatter>>, <<"a", "file", SimpleFormatter>>}

NextNoSink ==
    \/ \E o \in NoSinkOutputs : AddOutput(o[1], o[2], o[3])
    \/ \E level \in AllLevels : SetLevel(level)
    \/ GetBase(1)
    \/ \E kind \in Kinds, ln \in BOOLEAN : \E level \in LevelArgs(kind) :
          Emit(1, kind, level, ln, FALSE)
    \/ PrintGate(1)
    \/ PrintWrite(1)
    \/ PrintDone(1)

SpecNoSink == Init /\ [][NextNoSink]_vars

\* SpecRegistry: outputs are registered under every name, the empty one too,
\* with every writer and formatter, while a goroutine emits
RegistryOutputs == {"", "a", "b"} \X {"buffer", "file"} \X Formatters

NextRegistry ==
    \/ \E o \in RegistryOutputs : AddOutput(o[1], o[2], o[3])
    \/ GetBase(1)
    \/ Emit(1, "info", LevelInfo, TRUE, FALSE)
    \/ PrintGate(1)
    \/ PrintWrite(1)
    \/ PrintDone(1)

SpecRegistry == Init /\ [][NextRegistry]_vars

\* SpecOrder: the goroutines emit on the Logger made by NewStd, one call after
\* the other, while the threshold is lowered
NextOrder ==
    \/ SetLevel(LevelError)
    \/ \E t \in Threads : GetBase(t)
    \/ \E t \in Threads :
          \E e \in {<<"info", LevelInfo, TRUE>>, <<"error", LevelError, FALSE>>} :
             EmitMax(t, e[1], e[2], e[3], FALSE, MaxOrder)
    \/ \E t \in Threads : PrintGate(t)
    \/ \E t \in Threads : PrintWrite(t)
    \/ \E t \in Threads : PrintDone(t)

SpecOrder == InitStd /\ [][NextOrder]_vars

\* SpecFields: Set, set and Get are called on one Fields with reserved and
\* custom keys
FieldsValues == {Val("str", 1), Val("int", 2)}

SetKeys == {KeyTime, KeyFile} \cup UserKeys

NextFields ==
    \/ \E key \in reservedkeys \cup UserKeys, value \in FieldsValues : DoSet(key, value)
    \/ \E key \in SetKeys, value \in FieldsValues : Doset(key, value)
    \/ \E key \in reservedkeys \cup UserKeys : DoGet(key)

SpecFields == Init /\ [][NextFields]_vars

\* SpecLevel: every LogLevel, a byte, is marshalled and the text unmarshalled,
\* as TestLogLevel does; texts written by hand are unmarshalled too
Bytes == 0..255

LevelTexts ==
    {<<"N", "O", "N", "E">>,
     <<"p", "r", "i", "n", "t">>,
     <<"c", "u", "s", "t", "o", "m", "(", " ", "4", "2", " ", ")">>,
     <<"C", "u", "s", "t", "o", "m", "(", "3", "0", "0", ")">>,
     <<"C", "u", "s", "t", "o", "m", "(", "-", "1", ")">>,
     <<"C", "u", "s", "t", "o", "m", "(", "4", "x", ")">>,
     <<"C", "u", "s", "t", "o", "m", "(", ")">>,
     <<"C", "u", "s", "t", "o", "m", "7", ")">>,
     <<"C", "u", "s", "t", "o", "m", "(", "7">>,
     <<"b", "o", "g", "u", "s">>,
     << >>}

NextLevel ==
    \/ \E ll \in Bytes : DoMarshalText(ll)
    \/ \E ll \in {LevelNone, LevelMute} : DoAssign(ll)
    \/ \E text \in LevelTexts \cup {ret.text} : DoUnmarshalText(text)

SpecLevel == Init /\ [][NextLevel]_vars

\* SpecAccess: a Fields filled from JSON, whose values are strings, float64
\* numbers and nil, and by the stamps of the package, read by the typed
\* accessors
JSONValues == {Val("str", 1), Val("float", 2), Val("nil", 0)}

NextAccess ==
    \/ \E key \in reservedkeys, value \in JSONValues : DoUnmarshalJSON(key, value)
    \/ \E st \in {<<KeyTime, Val("time", 1)>>, <<KeyLogLevel, Val("level", LevelInfo)>>,
                  <<KeyError, Val("error", 1)>>, <<KeyLine, Val("int", 7)>>,
                  <<KeyFrames, [Val("frames", 1) EXCEPT !.fr = <<NewFields>>]>>} :
          DoStamp(st[1], st[2])
    \/ \E key \in reservedkeys : DoAccessor(key)

SpecAccess == Init /\ [][NextAccess]_vars

\* SpecWalk: a Fields filled by Set and set, walked with
\* a nil WalkFunc, one that always returns true, and one per key that returns
\* false for it
NextWalk ==
    \/ \E key \in SetKeys, value \in FieldsValues : DoSet(key, value)
    \/ \E key \in SetKeys, value \in FieldsValues : Doset(key, value)
    \/ \E wf \in {WalkFunc(TRUE, {}), WalkFunc(FALSE, {})}
                  \cup {WalkFunc(FALSE, {k}) : k \in SetKeys} :
          \E order \in WalkOrders(ufields) : DoWalk(wf, order)

SpecWalk == Init /\ [][NextWalk]_vars

\* SpecScope: a goroutine emits through the Logger and through clones scoped
\* to output names, some of them not registered, while outputs are added
ScopeNames == {<<"a">>, <<"a", "x">>, <<"x">>, <<"b", "a">>}

NextScope ==
    \/ \E o \in {<<"stdout", "stdout">>, <<"a", "buffer">>, <<"b", "file">>} :
          AddOutput(o[1], o[2], SimpleFormatter)
    \/ GetBase(1)
    \/ \E names \in ScopeNames : ToOutputs(1, names)
    \/ Emit(1, "info", LevelInfo, TRUE, FALSE)
    \/ PrintGate(1)
    \/ PrintWrite(1)
    \/ PrintDone(1)

SpecScope == Init /\ [][NextScope]_vars

\* SpecShared: the goroutines set, get and walk the same Fields
NextShared ==
    \/ \E t \in Threads, key \in UserKeys : FieldsLock(t, "set", key, Val("str", t))
    \/ \E t \in Threads, key \in UserKeys : FieldsLock(t, "Get", key, Val("nil", 0))
    \/ \E t \in Threads : FieldsSet(t)
    \/ \E t \in Threads : FieldsGet(t)
    \/ \E t \in Threads : WalkBegin(t)
    \/ \E t \in Threads : WalkVisit(t)
    \/ \E t \in Threads : WalkEnd(t)
    \/ \E t \in Threads : WalkFatal(t)

SpecShared == Init /\ [][NextShared]_vars

\* SpecExported: a caller outside the package fills a Fields with the exported
\* methods that write it, Set and UnmarshalJSON, and reads it with Get and
\* the typed accessors
ExportedKeys == {KeyTime, KeyMessage} \cup UserKeys

NextExported ==
    \/ \E key \in ExportedKeys, value \in FieldsValues : DoSet(key, value)
    \/ \E key \in ExportedKeys, value \in JSONValues : DoUnmarshalJSON(key, value)
    \/ \E key \in ExportedKeys : DoGet(key)
    \/ \E key \in ExportedKeys : DoAccessor(key)

SpecExported == Init /\ [][NextExported]_vars

\* SpecStack: the goroutines call WithStack with every skip up to past the end
\* of the stack and every depth up to past its length, and emit
StackCalls == {WithStack(skip, depth) : skip \in 0..(StackFrames + 1), depth \in 0..(MaxDepth + 1)}

NextStack ==
    \/ \E t \in Threads : GetBase(t)
    \/ \E t \in Threads : \E call \in StackCalls : Enrich(t, call)
    \/ Emit(1, "info", LevelInfo, TRUE, FALSE)
    \/ PrintGate(1)
    \/ PrintWrite(1)
    \/ PrintDone(1)

SpecStack == InitStd /\ [][NextStack]_vars

\* SpecAtomic: two outputs are registered on the Logger made by New and the
\* goroutines emit one call after the other, a goroutine also on the Line
\* the Logger held before
NextAtomic ==
    \/ \E o \in {<<"a", "buffer", SimpleFormatter>>, <<"b", "buffer", SimpleFormatter>>} :
          AddOutput(o[1], o[2], o[3])
    \/ \E t \in Threads : GetBase(t)
    \/ \E t \in Threads : EmitMax(t, "info", LevelInfo, TRUE, FALSE, MaxOrder)
    \/ \E t \in Threads : PrintGate(t)
    \/ \E t \in Threads : PrintWrite(t)
    \/ \E t \in Threads : PrintDone(t)

SpecAtomic == Init /\ [][NextAtomic]_vars

\* SpecLive: the goroutines register an output, change the threshold and emit,
\* goroutine 1 also on an enriched clone, a goroutine also on the Line the
\* Logger held before.  A goroutine that waits for the Logger's mu gets it
\* (sync.Mutex hands a starving waiter the lock), and a goroutine that runs
\* goes on running: every Write returns.
NextLive ==
    \/ AddOutput("a", "file", SimpleFormatter)
    \/ SetLevel(LevelError)
    \/ \E t \in Threads : GetBase(t)
    \/ Enrich(1, WithCaller(TRUE))
    \/ \E t \in Threads : EmitMax(t, "info", LevelInfo, TRUE, FALSE, MaxOrder)
    \/ \E t \in Threads : PrintGate(t)
    \/ \E t \in Threads : PrintWrite(t)
    \/ \E t \in Threads : PrintDone(t)

SpecLive ==
    /\ Init
    /\ [][NextLive]_vars
    /\ \A t \in Threads :
          /\ SF_vars(PrintGate(t))
          /\ WF_vars(PrintWrite(t))
          /\ WF_vars(PrintDone(t))

\* SpecCallback: a goroutine emits on a Logger made by New whose ef calls
\* l.SetLevel, while an output whose Write can fail is registered
NextCallback ==
    \/ \E o \in {<<"a", "file", SimpleFormatter>>, <<"b", "buffer", SimpleFormatter>>} :
          AddOutput(o[1], o[2], o[3])
    \/ \E level \in {LevelError, LevelDebug} : CallSetLevel(1, level)
    \/ GetBase(1)
    \/ \E e \in SinkEmits : Emit(1, e[1], e[2], e[3], FALSE)
    \/ PrintGate(1)
    \/ PrintWriteEf(1)
    \/ PrintDone(1)

SpecCallback == Init /\ [][NextCallback]_vars


\* SpecFormat: a goroutine emits on the Logger made by NewStd, on the base
\* Line or on a clone that WithFields gave up to two custom fields
NextFormat ==
    \/ GetBase(1)
    \/ \E K \in SUBSET UserKeys : \E custom \in [K -> {Val("str", 1), Val("int", 2)}] :
          Enrich(1, WithFields(custom))
    \/ \E e \in SinkEmits : Emit(1, e[1], e[2], e[3], FALSE)
    \/ PrintGate(1)
    \/ PrintWrite(1)
    \/ PrintDone(1)

SpecFormat == InitStd /\ [][NextFormat]_vars

(***************************************************************************)
(* Properties.                                                             *)
(***************************************************************************)
\* the keys the enrichment calls write
EnrichKeys == {KeyFile, KeyLine, KeyFrames} \cup UserKeys

\* the keys an emission call of kind writes itself
StampKeys(kind) ==
    {KeyTime, KeyMessage, KeyLogLevel} \cup (IF kind = "error" THEN {KeyError} ELSE {})

\* the level of the event of e was not above the threshold print saw
Passed(e) == e.gate # -1 /\ LogLevelOf(e.fields) <= e.gate

\* C1: the Fields a goroutine hands over after a chain of enrichment calls
\* started on the Logger's Line hold exactly what its own calls added, the
\* stamps of its emission call and what the Logger's Line held when the chain
\* began, and no enrichment field of another goroutine.
C1_OwnFieldsOnly ==
    \A t \in Threads :
        LET e == event[t] IN
        (e.id # 0 /\ e.chained) =>
            /\ DOMAIN e.fields = DOMAIN e.base \cup DOMAIN e.added \cup StampKeys(e.kind)
            /\ \A k \in DOMAIN e.fields \ StampKeys(e.kind) :
                  e.fields[k] = IF k \in DOMAIN e.added THEN e.added[k] ELSE e.base[k]
            /\ e.fields[KeyTime] = Val("time", e.id)
            /\ e.fields[KeyMessage] = Message(t, e.ln)
            /\ \A k \in DOMAIN e.fields \cap EnrichKeys : e.fields[k].v = t
            /\ DOMAIN e.base \cap EnrichKeys = {}

\* C1 witness: both goroutines have delivered an event after chains on the same
\* Line of the Logger, each with fields the other did not add
C1_Witness ==
    /\ \A t \in Threads : event[t].chained /\ event[t].returned /\ Passed(event[t])
    /\ event[1].id = 2
    /\ event[2].id = 1
    /\ KeyFile \in DOMAIN event[1].fields
    /\ KeyFile \notin DOMAIN event[2].fields
    /\ "k1" \in DOMAIN event[2].fields
    /\ "k1" \notin DOMAIN event[1].fields

\* the fields an enrichment call of goroutine t asks for
Requested(t, call) ==
    CASE call.op = "WithCaller" ->
            IF call.ok
            THEN [k \in {KeyFile, KeyLine} |->
                    IF k = KeyFile THEN Val("str", t) ELSE Val("int", t)]
            ELSE NewFields
      [] call.op = "WithStack" ->
            LET n == IF call.skip >= StackFrames THEN 0
                     ELSE Min(call.depth, StackFrames - call.skip)
            IN  IF n = 0 THEN NewFields
                ELSE [k \in {KeyFrames} |->
                        [ty |-> "frames", v |-> t, nl |-> FALSE,
                         fr |-> [i \in 1..n |-> Frame(call.skip + i - 1)]]]
      [] call.op = "WithFields" ->
            [k \in DOMAIN call.custom \ reservedkeys |-> Wrap(call.custom[k])]

\* C2: an enrichment call on a Line that is not a clone leaves the fields of
\* that Line as they are and returns a new Line, marked cloned, that holds the
\* fields of the first Line and the fields the call asked for.
C2_CloneOnFirstEnrichment ==
    [][\A t \in Threads :
          (~chain[t].calls /\ chain'[t].calls) =>
              LET p == cur[t]
                  q == cur'[t]
              IN  /\ p \in DOMAIN lines' => lines'[p] = lines[p]
                  /\ q # p
                  /\ q \notin DOMAIN lines
                  /\ q \in DOMAIN lines'
                  /\ lines'[q].cloned
                  /\ \E call \in ChainCalls(t) :
                        lines'[q].fields = Over(lines[p].fields, Requested(t, call))]_vars

\* C2 witness: a goroutine holds a clone made from the Logger's Line while that
\* Line held the stamps of a dropped event; the clone has them and the caller
\* fields, the Logger's Line has no caller fields
C2_Witness ==
    \E t \in Threads :
        /\ chain[t].calls
        /\ cur[t] # 0
        /\ cur[t] # Log
        /\ lines[cur[t]].cloned
        /\ KeyMessage \in DOMAIN chain[t].base
        /\ chain[t].base = lines[Log].fields
        /\ lines[cur[t]].fields = Over(chain[t].base, Requested(t, WithCaller(TRUE)))

\* the event of e reached an output
Delivered(e) == e.writes # << >>

\* the events written to the output registered as n that belong to event id
WrittenOf(n, id) == {i \in DOMAIN written[n] : written[n][i].ev = id}

\* C3: an event handed to print is written to the outputs if and only if its
\* loglevel is less than or equal to the threshold the Logger had when print
\* began; the threshold stays what it was until print is over, and an event
\* above it reaches no output.
C3_DeliveredIffNotAbove ==
    \A t \in Threads :
        LET e == event[t] IN
        /\ Delivered(e) => e.gate # -1 /\ LogLevelOf(e.fields) <= e.gate
        /\ pc[t] = "write" => lvl = e.gate
        /\ (e.returned /\ e.outs # NoOutputs) =>
              (Delivered(e) <=> LogLevelOf(e.fields) <= e.gate)
        /\ (e.returned /\ LogLevelOf(e.fields) > e.gate) =>
              \A n \in Names : WrittenOf(n, e.id) = {}

\* C3 witness: an event whose loglevel is the threshold was written
C3_Witness ==
    \E t \in Threads :
        /\ event[t].returned
        /\ event[t].kind = "warning"
        /\ event[t].gate = LevelWarning
        /\ LogLevelOf(event[t].fields) = event[t].gate
        /\ Delivered(event[t])

\* C4 as the specification states it: a Printf or Println event is written for
\* every threshold above Mute and suppressed only for Mute and None.
C4_PrintPassesAboveMute ==
    \A t \in Threads :
        (event[t].returned /\ event[t].kind = "print") =>
            (Delivered(event[t]) <=> event[t].gate > LevelMute)

\* C4, amended: a Printf or Println event carries the loglevel Print (255), the
\* greatest level, and is written only when the threshold is Print; it is
\* suppressed for None, Mute, Error, Warning, Info, Debug and every custom
\* threshold.
C4_PrintPassesOnlyAtPrint ==
    \A t \in Threads :
        (event[t].returned /\ event[t].kind = "print") =>
            /\ LogLevelOf(event[t].fields) = LevelPrint
            /\ Delivered(event[t]) <=> event[t].gate = LevelPrint

\* C4 witness: Println was called with the threshold at Print and its event was
\* written
C4_Witness ==
    \E t \in Threads :
        /\ event[t].returned
        /\ event[t].kind = "print"
        /\ event[t].ln
        /\ event[t].gate = LevelPrint
        /\ Len(event[t].writes) = 1

\* C5: with the threshold at Mute or None no emission call, on the Logger's
\* Line or on a clone, writes to an output.
C5_MuteWritesNothing ==
    \A t \in Threads :
        event[t].gate \in {LevelMute, LevelNone} =>
            /\ ~Delivered(event[t])
            /\ pc[t] # "write"
            /\ \A n \in Names : WrittenOf(n, event[t].id) = {}

\* C5 witness: Errorf on a clone returned with the threshold at Mute
C5_Witness ==
    \E t \in Threads :
        /\ event[t].returned
        /\ event[t].cloned
        /\ event[t].kind = "error"
        /\ ~event[t].ln
        /\ event[t].gate = LevelMute

\* the calls whose events the documentation of the threshold says it prints
Documented(threshold) ==
    CASE threshold = LevelError -> {"error"}
      [] threshold = LevelWarning -> {"warning", "error"}
      [] threshold = LevelInfo -> {"info", "warning", "error"}
      [] threshold = LevelDebug -> {"debug", "info", "warning", "error"}
      [] threshold = LevelPrint -> {"debug", "info", "warning", "error", "print"}
      [] OTHER -> {}

\* C6: the built-in thresholds are cumulative: Error prints the events of
\* Errorf/Errorln only, Warning those and warnings, Info those and infos, Debug
\* those and debugs, Print every event, the Printf/Println ones too.
C6_ThresholdsCumulative ==
    \A t \in Threads :
        (event[t].returned
            /\ event[t].gate \in {LevelError, LevelWarning, LevelInfo, LevelDebug, LevelPrint}) =>
            (Delivered(event[t]) <=> event[t].kind \in Documented(event[t].gate))

\* C6 witness: Infoln was written with the threshold at Debug
C6_Witness ==
    \E t \in Threads :
        /\ event[t].returned
        /\ event[t].kind = "info"
        /\ event[t].ln
        /\ event[t].gate = LevelDebug
        /\ Delivered(event[t])

\* the severity an emission call logs at: the level of the method, and for
\* Printf and Println the level argument
Severity(kind, level) ==
    CASE kind = "debug" -> LevelDebug
      [] kind = "info" -> LevelInfo
      [] kind = "warning" -> LevelWarning
      [] kind = "error" -> LevelError
      [] kind = "print" -> level

\* C7: Printf(level, ...) and Println(level, ...) stamp the loglevel field
\* with their level argument, and the gate compares that level with the
\* threshold.
C7_PrintStampsLevelArgument ==
    \A t \in Threads :
        LET e == event[t] IN
        (e.id # 0 /\ e.kind = "print") =>
            /\ LogLevelOf(e.fields) = e.level
            /\ e.returned => (Delivered(e) <=> e.level <= e.gate)

\* C10: the Fields an emission call hands to print hold time, message and
\* loglevel, and the loglevel is the severity of the call.
C10_StampsAtHandoff ==
    \A t \in Threads :
        LET e == event[t] IN
        e.id # 0 =>
            /\ {KeyTime, KeyMessage, KeyLogLevel} \subseteq DOMAIN e.fields
            /\ LogLevelOf(e.fields) = Severity(e.kind, e.level)

\* the text formatter fm is to give for the Fields f
Rendered(fm, f) ==
    IF fm.kind = "json"
    THEN {JSONFormat(f, fm.indent)}
    ELSE {SimpleFormat(f, order) : order \in WalkOrders(Custom(f))}

\* C8: every output registered when a delivered event was dispatched got one
\* Write for it, with the text the formatter of that output gives for the
\* Fields of the event, and no other output got one.
C8_OneWritePerOutput ==
    \A t \in Threads :
        LET e == event[t] IN
        (e.returned /\ Passed(e)) =>
            /\ Len(e.writes) = Cardinality(DOMAIN e.outs)
            /\ {e.writes[i].name : i \in DOMAIN e.writes} = DOMAIN e.outs
            /\ \A i \in DOMAIN e.writes :
                  e.writes[i].text \in Rendered(e.outs[e.writes[i].name].f, e.fields)
            /\ \A n \in Names :
                  Cardinality(WrittenOf(n, e.id)) = IF n \in DOMAIN e.outs THEN 1 ELSE 0

\* C8 witness: an event was written to a buffer by the SimpleFormatter and to
\* a file by the JSONFormatter
C8_Witness ==
    \E t \in Threads :
        LET e == event[t] IN
        /\ e.returned
        /\ DOMAIN e.outs = {"a", "b"}
        /\ \E i, j \in DOMAIN e.writes :
              /\ e.writes[i].name = "a" /\ e.writes[i].text.fmt = "simple"
              /\ e.writes[j].name = "b" /\ e.writes[j].text.fmt = "json"

\* C9: delivery is synchronous.  When an emission call has returned, the gate
\* was evaluated and, if the event passed, every output was written; and a
\* Write is made only for an event whose call has not returned.
C9_Synchronous ==
    /\ [](\A t \in Threads :
            event[t].returned =>
                /\ pc[t] = "ready"
                /\ event[t].gate # -1
                /\ Passed(event[t]) =>
                      {event[t].writes[i].name : i \in DOMAIN event[t].writes}
                          = DOMAIN event[t].outs)
    /\ [][\A n \in Names :
            written'[n] # written[n] =>
                \E t \in Threads :
                    /\ pc[t] \in {"print", "write"}
                    /\ ~event[t].returned
                    /\ event[t].id # 0
                    /\ WrittenOf(n, event[t].id) = {}
                    /\ written'[n] = Append(written[n], [ev |-> event[t].id, t |-> t])]_vars

\* C9 witness: the call of goroutine 1 has returned with both outputs written,
\* one of the Writes failed, while goroutine 2 is writing its event
C9_Witness ==
    /\ event[1].returned
    /\ Len(event[1].writes) = 2
    /\ \E i \in DOMAIN event[1].writes : ~event[1].writes[i].ok
    /\ pc[2] = "write"
    /\ event[2].writes # << >>

\* C11: when an emission call made on the Logger's Line has returned, the Line
\* the Logger holds as Log has empty Fields (no call being in progress on it),
\* whether the event was written or dropped.
C11_BaseEmptyAfterEmission ==
    \A t \in Threads :
        (event[t].returned /\ ~event[t].cloned /\ lines[Log].mu = 0) =>
            lines[Log].fields = NewFields

\* the names of the outputs written for the event of e
WrittenNames(e) == {e.writes[i].name : i \in DOMAIN e.writes}

\* C12: a Write error does not reach the caller and does not end the
\* dispatch, with an ErrorFunc or without: the range goes on over the outputs
\* not yet written, print can always make its next step, and the call returns
\* with every output written.
C12_WriteErrorDoesNotAbort ==
    \A t \in Threads :
        LET e == event[t] IN
        /\ pc[t] = "write" =>
              /\ rem[t] = DOMAIN e.outs \ WrittenNames(e)
              /\ ENABLED (PrintWrite(t) \/ PrintDone(t))
        /\ (e.returned /\ \E i \in DOMAIN e.writes : ~e.writes[i].ok) =>
              /\ pc[t] = "ready"
              /\ WrittenNames(e) = DOMAIN e.outs

\* C12 witness: no ErrorFunc is set, the Write to the file failed first, the
\* buffer was written after it and the call has returned
C12_Witness ==
    \E t \in Threads :
        /\ ~ef
        /\ event[t].returned
        /\ Len(event[t].writes) = 2
        /\ event[t].writes[1].name = "b"
        /\ ~event[t].writes[1].ok
        /\ event[t].writes[2].name = "a"
        /\ event[t].writes[2].ok

\* the outputs whose Write returned an error for the event of e, in the order
\* of the Writes
FailedNames(e) ==
    LET failed == SelectSeq(e.writes, LAMBDA w : ~w.ok)
    IN  [i \in DOMAIN failed |-> failed[i].name]

\* C13: with an ErrorFunc set it is called once for each Write that returned
\* an error, and not for a Write that succeeded nor for a dropped event;
\* without one nothing is called.
C13_ErrorFuncOncePerFailedWrite ==
    \A t \in Threads :
        LET e == event[t] IN
        /\ ef => e.efs = FailedNames(e)
        /\ ~ef => e.efs = << >>
        /\ (e.gate # -1 /\ ~Passed(e)) => e.efs = << >>

\* C13 witness: an ErrorFunc is set, the buffer was written, the Write to the
\* file failed and the ErrorFunc was called for it alone
C13_Witness ==
    \E t \in Threads :
        /\ ef
        /\ event[t].returned
        /\ Len(event[t].writes) = 2
        /\ event[t].writes[1].ok
        /\ ~event[t].writes[2].ok
        /\ event[t].efs = <<"b">>

\* C14: an emission call on a Logger with no output completes and calls no
\* ErrorFunc, whatever the threshold and the level of the event: nothing is
\* written, and the call has returned or print can end.
C14_NoOutputsNoError ==
    \A t \in Threads :
        LET e == event[t] IN
        (e.gate # -1 /\ e.outs = NoOutputs) =>
            /\ e.writes = << >>
            /\ e.efs = << >>
            /\ \A n \in Names : WrittenOf(n, e.id) = {}
            /\ IF e.returned THEN pc[t] = "ready"
               ELSE pc[t] = "write" /\ rem[t] = {} /\ ENABLED PrintDone(t)

\* C14 witness: with an ErrorFunc set and no output, Warningln passed the gate
\* and returned
C14_Witness ==
    \E t \in Threads :
        /\ ef
        /\ event[t].returned
        /\ event[t].outs = NoOutputs
        /\ event[t].kind = "warning"
        /\ event[t].ln
        /\ Passed(event[t])

\* C15: AddOutput returns ErrInvalidName for the empty name and
\* ErrDuplicateName for a name that is registered, and leaves the registry as
\* it was in both cases; otherwise it returns nil and the registry gains the
\* one entry name -> output{w, f}.  Nothing else changes the registry.
C15_AddOutputResult ==
    [][/\ (ret' # ret /\ ret'.op = "AddOutput") =>
            LET n == ret'.name IN
            /\ ret'.err \in {"nil", "ErrInvalidName", "ErrDuplicateName"}
            /\ ret'.err = "ErrInvalidName" <=> n = ""
            /\ ret'.err = "ErrDuplicateName" <=> (n # "" /\ n \in DOMAIN outputs)
            /\ ret'.err # "nil" => outputs' = outputs
            /\ ret'.err = "nil" =>
                  /\ n \notin DOMAIN outputs
                  /\ DOMAIN outputs' = DOMAIN outputs \cup {n}
                  /\ outputs'[n] = ret'.out
                  /\ \A m \in DOMAIN outputs : outputs'[m] = outputs[m]
       /\ outputs' # outputs => (ret' # ret /\ ret'.op = "AddOutput" /\ ret'.err = "nil")]_vars

\* C15 witness: AddOutput was called with a registered name and another writer
\* and formatter; it returned ErrDuplicateName and the first output is kept
C15_Witness ==
    /\ ret.op = "AddOutput"
    /\ ret.err = "ErrDuplicateName"
    /\ ret.name = "a"
    /\ ret.out = output("file", JSONFormatter(TRUE))
    /\ outputs["a"] = output("buffer", SimpleFormatter)

\* C16: SetLevel is atomic with respect to print.  While print writes an
\* event it holds the Logger's mu and the threshold is the one the gate saw,
\* so an event is written to every output or to none.
C16_SetLevelAtomic ==
    \A t \in Threads :
        LET e == event[t] IN
        /\ pc[t] = "write" => (mu = t /\ lvl = e.gate /\ Passed(e))
        /\ Delivered(e) => Passed(e)
        /\ e.returned => WrittenNames(e) \in {{}, DOMAIN e.outs}

\* C16 witness: Infoln was written to both outputs under the threshold Debug
\* and has returned; the threshold is Error now
C16_Witness ==
    \E t \in Threads :
        /\ event[t].returned
        /\ event[t].kind = "info"
        /\ event[t].gate = LevelDebug
        /\ WrittenNames(event[t]) = {"a", "b"}
        /\ lvl = LevelError

\* C17: the events of two emission calls one goroutine made one after the
\* other are in every writer that got both in the order of the calls (the
\* ids of the events are the order of the calls), whatever the other
\* goroutines emit meanwhile.
C17_OrderPerGoroutine ==
    \A n \in Names :
        \A i, j \in DOMAIN written[n] :
            (i < j /\ written[n][i].t = written[n][j].t) =>
                written[n][i].ev < written[n][j].ev

\* C17 witness: goroutine 1 called twice, goroutine 2 called between the two
\* calls, on the Line the Logger held before, and its event was written last
C17_Witness ==
    written["stdout"] = <<[ev |-> 1, t |-> 1], [ev |-> 3, t |-> 1], [ev |-> 2, t |-> 2]>>

\* the keys the package keeps for itself
Reserved == {"time", "message", "loglevel", "error", "frames", "file", "line", "func"}

\* f and g hold the same under every key but key
SameBut(f, g, key) ==
    /\ DOMAIN g \ {key} = DOMAIN f \ {key}
    /\ \A k \in DOMAIN f \ {key} : g[k] = f[k]

\* C18: Set with a reserved key returns ErrReservedKey and leaves the Fields
\* as they are; Set with another key returns nil and the Fields hold the
\* value under the key, which a Get then returns; set writes every key,
\* reserved or not; Get changes nothing.
C18_SetReservedKey ==
    /\ [][(ret' # ret \/ ufields' # ufields) =>
            LET key == ret'.name IN
            /\ ret'.op \in {"Set", "set", "Get"}
            /\ (ret'.op = "Set" /\ key \in Reserved) =>
                  (ret'.err = "ErrReservedKey" /\ ufields' = ufields)
            /\ (ret'.op = "Set" /\ key \notin Reserved) =>
                  /\ ret'.err = "nil"
                  /\ key \in DOMAIN ufields'
                  /\ ufields'[key] = ret'.val
                  /\ SameBut(ufields, ufields', key)
            /\ ret'.op = "set" =>
                  /\ ret'.err = "nil"
                  /\ key \in DOMAIN ufields'
                  /\ ufields'[key] = ret'.val
                  /\ SameBut(ufields, ufields', key)
            /\ ret'.op = "Get" =>
                  /\ ufields' = ufields
                  /\ ret'.ok <=> key \in DOMAIN ufields
                  /\ ret'.ok => ret'.val = ufields[key]]_vars
    /\ []((ret.op = "Get" /\ ret.name \in DOMAIN ufields) =>
            (ret.ok /\ ret.val = ufields[ret.name]))

\* C18 witness: set wrote the file key, then Set with the file key and another
\* value returned ErrReservedKey and the Fields hold what set wrote
C18_Witness ==
    /\ ret.op = "Set"
    /\ ret.name = KeyFile
    /\ ret.err = "ErrReservedKey"
    /\ ret.val = Val("int", 2)
    /\ ufields = set(set(NewFields, "k1", Val("int", 2)), KeyFile, Val("str", 1))

\* C19: WithFields puts every entry of custom with a key that is not reserved
\* into the Line it returns (an error value inside an errorprinter) and
\* neither creates nor changes a reserved key of that Line: the file, line,
\* frames and error the Line held are kept, and so is every other field.
C19_WithFieldsKeepsReserved ==
    [][\A t \in Threads : \A call \in ChainCalls(t) :
          (call.op = "WithFields" /\ Enrich(t, call)) =>
              LET old == lines[cur[t]].fields
                  new == lines'[cur'[t]].fields
                  custom == call.custom
              IN  /\ \A k \in DOMAIN custom \ Reserved :
                        /\ k \in DOMAIN new
                        /\ new[k] = IF custom[k].ty = "error"
                                    THEN [custom[k] EXCEPT !.ty = "errorprinter"]
                                    ELSE custom[k]
                  /\ \A k \in Reserved :
                        /\ k \in DOMAIN new <=> k \in DOMAIN old
                        /\ k \in DOMAIN old => new[k] = old[k]
                  /\ \A k \in DOMAIN old \ DOMAIN custom :
                        k \in DOMAIN new /\ new[k] = old[k]
                  /\ DOMAIN new \subseteq DOMAIN old \cup DOMAIN custom]_vars

\* C19 witness: a goroutine holds a clone enriched by WithCaller and by
\* WithFields with a custom file entry; the clone has the custom key and the
\* file of the caller
C19_Witness ==
    \E t \in Threads :
        /\ cur[t] # 0
        /\ lines[cur[t]].cloned
        /\ DOMAIN chain[t].added = {"k1", KeyFile, KeyLine}
        /\ lines[cur[t]].fields["k1"] = Val("str", t)
        /\ lines[cur[t]].fields[KeyFile] = Val("str", t)
        /\ lines[cur[t]].fields[KeyFile] # Val("str", 9)

\* C20: the text MarshalText gives for a level unmarshals without error to
\* that level, for None, Mute, Error, Warning, Info, Debug, Print and every
\* value from Custom up to Print.
C20_LevelRoundTrip ==
    [][(/\ ret.op = "MarshalText"
        /\ ret.val.v \in {LevelNone, LevelMute, LevelError, LevelWarning, LevelInfo,
                           LevelDebug, LevelPrint} \cup LevelCustom..(LevelPrint - 1)
        /\ DoUnmarshalText(ret.text)) =>
            /\ ret'.err = "nil"
            /\ ulevel' = ret.val.v]_vars

\* C20 witness: LogLevel(42) was marshalled to Custom(42) and that text
\* unmarshalled to 42
C20_Witness ==
    /\ ret.op = "UnmarshalText"
    /\ ret.val = Val("level", CustomLevel)
    /\ ret.text = <<"C", "u", "s", "t", "o", "m", "(", "4", "2", ")">>
    /\ ret.err = "nil"
    /\ ulevel = CustomLevel

\* a text is the encoding of a level, ignoring case
IsEncoding(text) == \E ll \in Bytes : ToLower(String(ll)) = ToLower(text)

\* C21: UnmarshalText decodes the encoding of a level whatever its case; for
\* any other text, malformed Custom(...) included, it fails with
\* ErrUnmarshalLevel and leaves the level as it was.
C21_UnmarshalRejectsOtherText ==
    ret.op = "UnmarshalText" =>
        IF IsEncoding(ret.text)
        THEN ret.err = "nil" /\ ToLower(String(ret.ll)) = ToLower(ret.text)
        ELSE ret.err = "ErrUnmarshalLevel" /\ ret.ll = ret.was

\* the zero value of the result type of the accessor of key
Zero(key) ==
    CASE key = KeyTime -> Val("time", 0)
      [] key = KeyLogLevel -> Val("level", LevelNone)
      [] key \in {KeyError, KeyFrames} -> Val("nil", 0)
      [] key = KeyLine -> Val("int", 0)
      [] OTHER -> Val("str", 0)

\* C22: a typed accessor never panics, and returns the zero value of its
\* result type when its key is absent or holds a value of another type.
C22_AccessorsNeverPanic ==
    ret.op = "Accessor" =>
        /\ ret.err # "panic"
        /\ ~ret.ok => ret.val = Zero(ret.name)

\* C23: Walk with a nil WalkFunc returns ErrInvalidWalkFunc and calls nothing;
\* otherwise it returns no error, calls the func at most once per entry, makes
\* no call after one that returned false, and visits every entry when every
\* call returned true.
C23_Walk ==
    ret.op = "Walk" =>
        IF ret.wf.nil
        THEN ret.err = "ErrInvalidWalkFunc" /\ ret.visited = << >>
        ELSE /\ ret.err = "nil"
             /\ \A i \in DOMAIN ret.visited : ret.visited[i] \in DOMAIN ufields
             /\ \A i, j \in DOMAIN ret.visited : i # j => ret.visited[i] # ret.visited[j]
             /\ \A i \in DOMAIN ret.visited :
                    ret.visited[i] \in ret.wf.stop => i = Len(ret.visited)
             /\ (\A i \in DOMAIN ret.visited : ret.visited[i] \notin ret.wf.stop) =>
                    {ret.visited[i] : i \in DOMAIN ret.visited} = DOMAIN ufields

\* C23 witness: a Walk over three entries stopped by the second call
C23_Witness ==
    /\ ret.op = "Walk"
    /\ Cardinality(DOMAIN ufields) = 3
    /\ Len(ret.visited) = 2
    /\ ret.visited[2] \in ret.wf.stop

\* the outputs an event is for: those registered, at its dispatch, under the
\* names its Line is scoped to, or all of them when the Line is not scoped
Scope(e) ==
    IF e.names # << >>
    THEN {e.names[i] : i \in DOMAIN e.names} \cap DOMAIN e.outs
    ELSE DOMAIN e.outs

C25_EnrichInPlace ==
    [][\A t \in Threads : \A call \in ChainCalls(t) :
          (Enrich(t, call) /\ lines[cur[t]].cloned) =>
              LET p == cur[t] IN
              /\ cur'[t] = p
              /\ DOMAIN lines' \subseteq DOMAIN lines
              /\ lines'[p].cloned
              /\ lines'[p].fields = Over(lines[p].fields, Requested(t, call))]_vars

\* C25 witness: a goroutine has made a WithCaller and a WithStack call in one
\* chain, and its clone is the only Line besides the Logger's
C25_Witness ==
    \E t \in Threads :
        /\ chain[t].calls
        /\ {KeyFile, KeyFrames} \subseteq DOMAIN chain[t].added
        /\ cur[t] # Log
        /\ lines[cur[t]].cloned
        /\ {KeyFile, KeyFrames} \subseteq DOMAIN lines[cur[t]].fields
        /\ DOMAIN lines = {Log, cur[t]}

\* C26: the Fields of a Line that were passed to Logger.print are not written
\* again: whatever is called afterwards, they hold what they held.
C26_HandedFieldsNotWritten ==
    [][\A p \in DOMAIN lines \cap DOMAIN lines' :
          (lines[p].handed /\ lines'[p].handed) => lines'[p].fields = lines[p].fields]_vars

\* C27: an event written to an output holds an error field only if Errorf or
\* Errorln emitted it.
C27_ErrorOnlyFromErrorCalls ==
    \A t \in Threads :
        LET e == event[t] IN
        (e.id # 0 /\ Delivered(e) /\ e.kind # "error") => KeyError \notin DOMAIN e.fields

\* C28: an event the gate drops leaves the Logger as it was: print returns
\* with the outputs, the threshold, the ErrorFunc and the Logger's Line
\* unchanged and its mu free, no formatter and no writer was called for the
\* event and ef was not called.
C28_DroppedNoSideEffects ==
    /\ [](\A t \in Threads :
            LET e == event[t] IN
            (e.gate # -1 /\ LogLevelOf(e.fields) > e.gate) =>
                /\ e.returned
                /\ e.writes = << >>
                /\ e.efs = << >>
                /\ \A n \in Names : WrittenOf(n, e.id) = {})
    /\ [][\A t \in Threads :
            (PrintGate(t) /\ LogLevelOf(lines[cur[t]].fields) > lvl) =>
                /\ outputs' = outputs
                /\ lvl' = lvl
                /\ ef' = ef
                /\ Log' = Log
                /\ mu' = mu
                /\ written' = written
                /\ pc'[t] = "ready"]_vars

\* C28 witness: with an ErrorFunc set and a buffer and a file registered, an
\* Infoln was dropped at the threshold Error and has returned
C28_Witness ==
    /\ ef
    /\ DOMAIN outputs = {"a", "b"}
    /\ event[1].returned
    /\ event[1].kind = "info"
    /\ event[1].gate = LevelError
    /\ event[1].outs = outputs
    /\ event[1].writes = << >>

\* C29: while print ranges over the outputs for an event, the registry is the
\* one print found when it began, since AddOutput waits for the Logger's mu;
\* the event is written to the outputs registered then, to each of them and
\* to no other, whatever is registered afterwards.
C29_AddOutputDuringDispatch ==
    \A t \in Threads :
        LET e == event[t] IN
        /\ pc[t] = "write" =>
              /\ outputs = e.outs
              /\ \A o \in SinkOutputs : ~ENABLED AddOutput(o[1], o[2], o[3])
        /\ WrittenNames(e) \subseteq DOMAIN e.outs
        /\ (e.returned /\ Passed(e)) =>
              /\ WrittenNames(e) = DOMAIN e.outs
              /\ \A n \in Names \ DOMAIN e.outs : WrittenOf(n, e.id) = {}

\* C29 witness: the event of goroutine 1 was written to a, the one output
\* registered when its dispatch began; b, registered since, holds nothing of
\* it, and goroutine 2 is in a dispatch that found both
C29_Witness ==
    /\ event[1].returned
    /\ DOMAIN event[1].outs = {"a"}
    /\ WrittenNames(event[1]) = {"a"}
    /\ DOMAIN outputs = {"a", "b"}
    /\ WrittenOf("b", event[1].id) = {}
    /\ pc[2] = "write"
    /\ DOMAIN event[2].outs = {"a", "b"}

\* C30: the Logger's outputs, threshold and Line (l.Log) are read and written
\* only under the Logger's mu: they change only in a call that holds mu, and
\* no goroutine reads l.Log while another holds mu.
C30_LoggerStateUnderLock ==
    [][/\ (outputs' # outputs \/ lvl' # lvl \/ Log' # Log) =>
              \/ mu = 0 /\ mu' = 0
              \/ \E t \in Threads : mu = t /\ pc[t] = "write"
       /\ \A t \in Threads : GetBase(t) => mu = 0]_vars

\* C31: the methods of one Fields exclude each other: while a goroutine is in
\* set, writing the map, no other goroutine is in a method that reads or
\* writes the same map.
C31_FieldsMutuallyExclusive ==
    \A t, u \in Threads : (t # u /\ fpc[t].op = "set") => fpc[u].op = "idle"

\* C32: a Fields that a caller fills with the exported methods only holds no
\* reserved key.
C32_NoReservedKeyFromCaller == DOMAIN ufields \cap reservedkeys = {}

\* the text between the parentheses of a text of the form Custom(<n>)
CustomNumber(text) ==
    TrimSpace(TrimSuffix(TrimPrefix(ToLower(text), <<"c", "u", "s", "t", "o", "m", "(">>),
                         <<")">>))

\* a text of the form Custom(<n>), n a number
IsCustomForm(text) ==
    /\ HasPrefix(ToLower(text), <<"c", "u", "s", "t", "o", "m", "(">>)
    /\ HasSuffix(text, <<")">>)
    /\ Atoi(CustomNumber(text)).ok

\* C33: UnmarshalText of Custom(<n>) gives the level n when n is at least
\* Custom and below Print; for any other n it fails with ErrUnmarshalLevel
\* and leaves the level as it was.
C33_CustomInRangeOnly ==
    (ret.op = "UnmarshalText" /\ IsCustomForm(ret.text)) =>
        LET n == Atoi(CustomNumber(ret.text)).n IN
        IF n \in LevelCustom..(LevelPrint - 1)
        THEN ret.err = "nil" /\ ret.ll = n
        ELSE ret.err = "ErrUnmarshalLevel" /\ ret.ll = ret.was

\* the names a Line is scoped to
NamesOf(e) == {e.names[i] : i \in DOMAIN e.names}

\* C34: print given names writes only to outputs registered under one of
\* them, and to each of those; a name that is not registered is passed over:
\* nothing is written for it and ef is not called for it, ef being called for
\* failed Writes only; print given no names writes to every output.
C34_DispatchToNames ==
    \A t \in Threads :
        LET e == event[t] IN
        /\ \A i \in DOMAIN e.writes :
              /\ e.writes[i].name \in DOMAIN e.outs
              /\ e.names # << >> => e.writes[i].name \in NamesOf(e)
        /\ \A i \in DOMAIN e.efs :
              /\ e.efs[i] \in DOMAIN e.outs
              /\ \E j \in DOMAIN e.writes : e.writes[j].name = e.efs[i] /\ ~e.writes[j].ok
        /\ (e.returned /\ Passed(e)) =>
              /\ NamesOf(e) \cap DOMAIN e.outs \subseteq WrittenNames(e)
              /\ e.names = << >> => WrittenNames(e) = DOMAIN e.outs

\* C34 witness: with an ErrorFunc set, an event for the names a and x, x not
\* registered, was written to a alone, and ef was not called
C34_Witness ==
    /\ ef
    /\ event[1].returned
    /\ event[1].names = <<"a", "x">>
    /\ DOMAIN event[1].outs = {"stdout", "a", "b"}
    /\ WrittenNames(event[1]) = {"a"}
    /\ event[1].efs = << >>

\* the frames the stack holds from skip on
Available(skip) == IF skip >= StackFrames THEN 0 ELSE StackFrames - skip

C36_DispatchesAtomic ==
    /\ [](/\ \A t, u \in Threads : (pc[t] = "write" /\ pc[u] = "write") => t = u
          /\ \A n, m \in Names :
                \A i, j \in DOMAIN written[n] : \A k, l \in DOMAIN written[m] :
                    (/\ i < j
                     /\ written[m][k].ev = written[n][i].ev
                     /\ written[m][l].ev = written[n][j].ev) => k < l)
    /\ [][\A n \in Names :
            written'[n] # written[n] =>
                \E t \in Threads :
                    /\ mu = t
                    /\ pc[t] = "write"
                    /\ written'[n] = Append(written[n], [ev |-> event[t].id, t |-> t])]_vars

\* C36 witness: the events of the two goroutines were both written to a and
\* to b, one after the other
C36_Witness ==
    /\ Len(written["a"]) = 2
    /\ Len(written["b"]) = 2
    /\ written["a"][1].t # written["a"][2].t
    /\ written["b"][1].ev = written["a"][1].ev
    /\ written["b"][2].ev = written["a"][2].ev

\* C37: no deadlock.  A goroutine takes the Logger's mu while it holds the
\* mutex of its Line and never the other way round, a goroutine that is
\* inside a call can take a step or waits for a mutex that another goroutine
\* holds and will release, and every emission call returns.
C37_NoDeadlock ==
    /\ [](/\ mu # 0 => (pc[mu] = "write" /\ lines[cur[mu]].mu = mu)
          /\ \A t \in Threads :
                pc[t] = "print" => (mu # t /\ lines[cur[t]].mu = t)
          /\ (\E t \in Threads : pc[t] # "ready") =>
                \E t \in Threads :
                    ENABLED (PrintGate(t) \/ PrintWrite(t) \/ PrintDone(t)))
    /\ [][\A t \in Threads :
            (pc[t] = "ready" /\ pc'[t] # "ready") =>
                (mu # t /\ pc'[t] = "print" /\ lines'[cur'[t]].mu = t)]_vars
    /\ \A t \in Threads : (pc[t] # "ready") ~> (pc[t] = "ready" /\ event[t].returned)

\* C37 witness: goroutine 2 emitted on the Line the Logger held before while
\* goroutine 1 emitted on the new one, and both calls have returned
C37_Witness ==
    /\ \A t \in Threads : pc[t] = "ready" /\ event[t].returned
    /\ event[1].id = 2
    /\ event[2].id = 3
    /\ event[2].line # event[1].line
    /\ Len(written["a"]) >= 2

\* C38: an emission whose Write failed returns when ef calls the Logger.  A
\* goroutine that is inside ef can make its call (the Logger's mu is free for
\* it), and an emission that called ef is on its way to return: it is in the
\* range or has returned.
C38_CallbackReturns ==
    \A t \in Threads :
        /\ pc[t] = "ef" => \E level \in AllLevels : ENABLED CallSetLevel(t, level)
        /\ event[t].efs # << >> => (pc[t] = "write" \/ event[t].returned)

\* the place of a custom key in the alphabet
Alphabetical(key) == CASE key = "k1" -> 1 [] key = "k2" -> 2

\* C39: SimpleFormatter is deterministic.  The text written for an event is
\* the only text Format can return for its Fields, and its custom fields are
\* in the alphabetical order of their keys.
C39_SimpleFormatterSorted ==
    \A t \in Threads : \A i \in DOMAIN event[t].writes :
        LET text == event[t].writes[i].text IN
        text.fmt = "simple" =>
            /\ Format(SimpleFormatter, event[t].fields) = {text}
            /\ \A j, k \in DOMAIN text.custom :
                  j < k => Alphabetical(text.custom[j][1]) < Alphabetical(text.custom[k][1])

====
